---- MODULE Spec2Model ----
(***************************************************************************)
(* A model of the creative-commons-images-maker scripts.                   *)
(*                                                                         *)
(* Text is modelled as a sequence of one-character strings, so that        *)
(* lowercasing, substring search, prefix removal, whitespace splitting     *)
(* and joining are computed as Python computes them.                       *)
(***************************************************************************)
EXTENDS Integers, Sequences, FiniteSets, TLC

(***************************************************************************)
(* Bounds of the model.                                                    *)
(***************************************************************************)
\* the longest fallback answer, in words, that Init draws
MaxAnswerWords == 3
\* the longest question, in words, that Init draws
MaxQuestionWords == 4
\* the number of add_citation_overlay calls made on one directory
MaxCalls == 2
\* the number of questions extract_questions finds in the quiz text
NQuestions == 2
\* the longest list a Wikimedia Commons search returns
MaxResults == 2
\* the number of script runs in one behaviour
MaxRuns == 2

(***************************************************************************)
(* Python str primitives.                                                  *)
(***************************************************************************)
Min(S) == CHOOSE m \in S : \A n \in S : m <= n
Max(S) == CHOOSE m \in S : \A n \in S : m >= n

UpperLetters == <<"A","B","C","D","E","F","G","H","I","J","K","L","M","N","O","P","Q","R","S","T","U","V","W","X","Y","Z","Ö">>
LowerLetters == <<"a","b","c","d","e","f","g","h","i","j","k","l","m","n","o","p","q","r","s","t","u","v","w","x","y","z","ö">>

\* str.lower() on one character
LowerMap ==
  [c \in {UpperLetters[i] : i \in 1..Len(UpperLetters)} |->
     LowerLetters[CHOOSE i \in 1..Len(UpperLetters) : UpperLetters[i] = c]]
LowerChar(c) == IF c \in DOMAIN LowerMap THEN LowerMap[c] ELSE c

\* str.upper() on one character (used only to build inputs)
UpperMap ==
  [c \in {LowerLetters[i] : i \in 1..Len(LowerLetters)} |->
     UpperLetters[CHOOSE i \in 1..Len(LowerLetters) : LowerLetters[i] = c]]
UpperChar(c) == IF c \in DOMAIN UpperMap THEN UpperMap[c] ELSE c

\* str.lower()
Lower(s) == [i \in 1..Len(s) |-> LowerChar(s[i])]
\* str.upper()
Upper(s) == [i \in 1..Len(s) |-> UpperChar(s[i])]

\* the characters str.split() and str.strip() treat as whitespace
Whitespace == {" ", "\t", "\n"}
IsSpace(c) == c \in Whitespace

\* k in s
Contains(s, k) ==
  \E i \in 1..(Len(s) - Len(k) + 1) :
     \A d \in 1..Len(k) : s[i + d - 1] = k[d]

\* s.startswith(p)
StartsWith(s, p) ==
  /\ Len(p) <= Len(s)
  /\ \A d \in 1..Len(p) : s[d] = p[d]

\* s.strip()
Strip(s) ==
  LET keep == {i \in 1..Len(s) : ~IsSpace(s[i])}
  IN  IF keep = {} THEN <<>> ELSE SubSeq(s, Min(keep), Max(keep))

\* s.split(): the maximal runs of non-whitespace characters, in order
RECURSIVE SplitAcc(_, _, _, _)
SplitAcc(s, i, cur, acc) ==
  IF i > Len(s)
    THEN IF cur = <<>> THEN acc ELSE Append(acc, cur)
    ELSE IF IsSpace(s[i])
           THEN SplitAcc(s, i + 1, <<>>, IF cur = <<>> THEN acc ELSE Append(acc, cur))
           ELSE SplitAcc(s, i + 1, Append(cur, s[i]), acc)
Split(s) == SplitAcc(s, 1, <<>>, <<>>)

\* sep.join(words)
RECURSIVE Join(_, _)
Join(words, sep) ==
  IF words = <<>> THEN <<>>
  ELSE IF Len(words) = 1 THEN words[1]
  ELSE words[1] \o sep \o Join(Tail(words), sep)

\* words[:n]
Take(words, n) == SubSeq(words, 1, IF Len(words) < n THEN Len(words) ELSE n)

(***************************************************************************)
(* extract_topic: the synonym table, in its declared order.                *)
(***************************************************************************)
answer_to_topic ==
  <<
    [key   |-> <<"p","a","r","o","x","y","s","m","a","l"," ","n","o","c","t","u","r","n","a","l"," ","h","e","m","o","g","l","o","b","i","n","u","r","i","a">>,
     topic |-> <<"p","a","r","o","x","y","s","m","a","l"," ","n","o","c","t","u","r","n","a","l"," ","h","e","m","o","g","l","o","b","i","n","u","r","i","a">>],
    [key   |-> <<"p","n","h">>,
     topic |-> <<"p","a","r","o","x","y","s","m","a","l"," ","n","o","c","t","u","r","n","a","l"," ","h","e","m","o","g","l","o","b","i","n","u","r","i","a">>],
    [key   |-> <<"h","e","m","o","g","l","o","b","i","n"," ","e","l","e","c","t","r","o","p","h","o","r","e","s","i","s">>,
     topic |-> <<"h","e","m","o","g","l","o","b","i","n"," ","e","l","e","c","t","r","o","p","h","o","r","e","s","i","s"," ","t","h","a","l","a","s","s","e","m","i","a">>],
    [key   |-> <<"v","i","t","a","m","i","n"," ","b","1","2"," ","d","e","f","i","c","i","e","n","c","y">>,
     topic |-> <<"v","i","t","a","m","i","n"," ","b","1","2"," ","d","e","f","i","c","i","e","n","c","y"," ","a","n","e","m","i","a">>],
    [key   |-> <<"v","i","t","a","m","i","n"," ","b","6">>,
     topic |-> <<"v","i","t","a","m","i","n"," ","b","6"," ","p","y","r","i","d","o","x","i","n","e"," ","s","i","d","e","r","o","b","l","a","s","t","i","c"," ","a","n","e","m","i","a">>],
    [key   |-> <<"p","y","r","i","d","o","x","i","n","e">>,
     topic |-> <<"v","i","t","a","m","i","n"," ","b","6"," ","p","y","r","i","d","o","x","i","n","e"," ","s","i","d","e","r","o","b","l","a","s","t","i","c"," ","a","n","e","m","i","a">>],
    [key   |-> <<"i","r","o","n"," ","d","e","f","i","c","i","e","n","c","y"," ","a","n","e","m","i","a">>,
     topic |-> <<"i","r","o","n"," ","d","e","f","i","c","i","e","n","c","y"," ","a","n","e","m","i","a">>],
    [key   |-> <<"b","e","t","a","-","t","h","a","l","a","s","s","e","m","i","a"," ","m","a","j","o","r">>,
     topic |-> <<"b","e","t","a"," ","t","h","a","l","a","s","s","e","m","i","a"," ","m","a","j","o","r">>],
    [key   |-> <<"w","a","r","m"," ","a","u","t","o","i","m","m","u","n","e"," ","h","e","m","o","l","y","t","i","c"," ","a","n","e","m","i","a">>,
     topic |-> <<"a","u","t","o","i","m","m","u","n","e"," ","h","e","m","o","l","y","t","i","c"," ","a","n","e","m","i","a">>],
    [key   |-> <<"t","r","e","a","t"," ","t","h","e"," ","u","n","d","e","r","l","y","i","n","g"," ","d","i","s","e","a","s","e">>,
     topic |-> <<"a","n","e","m","i","a"," ","o","f"," ","c","h","r","o","n","i","c"," ","d","i","s","e","a","s","e">>],
    [key   |-> <<"g","l","u","c","o","s","e","-","6","-","p","h","o","s","p","h","a","t","e"," ","d","e","h","y","d","r","o","g","e","n","a","s","e">>,
     topic |-> <<"g","6","p","d"," ","d","e","f","i","c","i","e","n","c","y"," ","h","e","m","o","l","y","t","i","c"," ","a","n","e","m","i","a">>],
    [key   |-> <<"g","6","p","d"," ","d","e","f","i","c","i","e","n","c","y">>,
     topic |-> <<"g","6","p","d"," ","d","e","f","i","c","i","e","n","c","y"," ","h","e","m","o","l","y","t","i","c"," ","a","n","e","m","i","a">>],
    [key   |-> <<"a","u","t","o","i","m","m","u","n","e"," ","d","e","s","t","r","u","c","t","i","o","n">>,
     topic |-> <<"p","e","r","n","i","c","i","o","u","s"," ","a","n","e","m","i","a"," ","v","i","t","a","m","i","n"," ","b","1","2">>],
    [key   |-> <<"f","o","l","a","t","e"," ","d","e","f","i","c","i","e","n","c","y">>,
     topic |-> <<"f","o","l","a","t","e"," ","d","e","f","i","c","i","e","n","c","y"," ","m","e","g","a","l","o","b","l","a","s","t","i","c"," ","a","n","e","m","i","a">>],
    [key   |-> <<"s","t","e","m"," ","c","e","l","l"," ","t","r","a","n","s","p","l","a","n","t">>,
     topic |-> <<"f","a","n","c","o","n","i"," ","a","n","e","m","i","a">>],
    [key   |-> <<"p","i","g","m","e","n","t","e","d"," ","g","a","l","l","s","t","o","n","e","s">>,
     topic |-> <<"h","e","r","e","d","i","t","a","r","y"," ","s","p","h","e","r","o","c","y","t","o","s","i","s">>],
    [key   |-> <<"s","p","l","e","n","i","c"," ","s","e","q","u","e","s","t","r","a","t","i","o","n"," ","c","r","i","s","i","s">>,
     topic |-> <<"s","i","c","k","l","e"," ","c","e","l","l"," ","d","i","s","e","a","s","e">>],
    [key   |-> <<"p","y","r","u","v","a","t","e"," ","k","i","n","a","s","e"," ","d","e","f","i","c","i","e","n","c","y">>,
     topic |-> <<"p","y","r","u","v","a","t","e"," ","k","i","n","a","s","e"," ","d","e","f","i","c","i","e","n","c","y"," ","h","e","m","o","l","y","t","i","c"," ","a","n","e","m","i","a">>],
    [key   |-> <<"b","a","s","o","p","h","i","l","i","c"," ","s","t","i","p","p","l","i","n","g">>,
     topic |-> <<"l","e","a","d"," ","p","o","i","s","o","n","i","n","g"," ","a","n","e","m","i","a">>],
    [key   |-> <<"v","a","c","c","i","n","a","t","i","o","n"," ","a","n","d"," ","p","r","o","p","h","y","l","a","c","t","i","c"," ","a","n","t","i","b","i","o","t","i","c","s">>,
     topic |-> <<"s","i","c","k","l","e"," ","c","e","l","l"," ","d","i","s","e","a","s","e"," ","a","s","p","l","e","n","i","a">>],
    [key   |-> <<"a","c","u","t","e"," ","c","h","e","s","t"," ","s","y","n","d","r","o","m","e">>,
     topic |-> <<"s","i","c","k","l","e"," ","c","e","l","l"," ","d","i","s","e","a","s","e"," ","a","c","u","t","e"," ","c","h","e","s","t"," ","s","y","n","d","r","o","m","e">>],
    [key   |-> <<"r","e","n","a","l"," ","p","a","p","i","l","l","a","r","y"," ","n","e","c","r","o","s","i","s">>,
     topic |-> <<"s","i","c","k","l","e"," ","c","e","l","l"," ","t","r","a","i","t">>],
    [key   |-> <<"h","y","d","r","o","x","y","u","r","e","a">>,
     topic |-> <<"s","i","c","k","l","e"," ","c","e","l","l"," ","d","i","s","e","a","s","e"," ","h","y","d","r","o","x","y","u","r","e","a">>],
    [key   |-> <<"a","b","o"," ","i","n","c","o","m","p","a","t","i","b","i","l","i","t","y">>,
     topic |-> <<"a","b","o"," ","i","n","c","o","m","p","a","t","i","b","i","l","i","t","y"," ","h","e","m","o","l","y","t","i","c"," ","d","i","s","e","a","s","e"," ","n","e","w","b","o","r","n">>],
    [key   |-> <<"r","h"," ","i","n","c","o","m","p","a","t","i","b","i","l","i","t","y">>,
     topic |-> <<"r","h"," ","i","n","c","o","m","p","a","t","i","b","i","l","i","t","y"," ","h","e","m","o","l","y","t","i","c"," ","d","i","s","e","a","s","e"," ","n","e","w","b","o","r","n">>],
    [key   |-> <<"p","o","r","p","h","y","r","i","a"," ","c","u","t","a","n","e","a"," ","t","a","r","d","a">>,
     topic |-> <<"p","o","r","p","h","y","r","i","a"," ","c","u","t","a","n","e","a"," ","t","a","r","d","a">>],
    [key   |-> <<"p","c","t">>,
     topic |-> <<"p","o","r","p","h","y","r","i","a"," ","c","u","t","a","n","e","a"," ","t","a","r","d","a">>],
    [key   |-> <<"i","m","m","u","n","e"," ","t","h","r","o","m","b","o","c","y","t","o","p","e","n","i","c"," ","p","u","r","p","u","r","a">>,
     topic |-> <<"i","m","m","u","n","e"," ","t","h","r","o","m","b","o","c","y","t","o","p","e","n","i","c"," ","p","u","r","p","u","r","a"," ","i","t","p">>],
    [key   |-> <<"i","t","p">>,
     topic |-> <<"i","m","m","u","n","e"," ","t","h","r","o","m","b","o","c","y","t","o","p","e","n","i","c"," ","p","u","r","p","u","r","a">>],
    [key   |-> <<"a","c","u","t","e"," ","i","n","t","e","r","m","i","t","t","e","n","t"," ","p","o","r","p","h","y","r","i","a">>,
     topic |-> <<"a","c","u","t","e"," ","i","n","t","e","r","m","i","t","t","e","n","t"," ","p","o","r","p","h","y","r","i","a">>],
    [key   |-> <<"b","e","r","n","a","r","d","-","s","o","u","l","i","e","r"," ","s","y","n","d","r","o","m","e">>,
     topic |-> <<"b","e","r","n","a","r","d","-","s","o","u","l","i","e","r"," ","s","y","n","d","r","o","m","e">>],
    [key   |-> <<"v","i","t","a","m","i","n"," ","k">>,
     topic |-> <<"v","i","t","a","m","i","n"," ","k"," ","d","e","f","i","c","i","e","n","c","y"," ","b","l","e","e","d","i","n","g">>],
    [key   |-> <<"d","e","s","m","o","p","r","e","s","s","i","n">>,
     topic |-> <<"v","o","n"," ","w","i","l","l","e","b","r","a","n","d"," ","d","i","s","e","a","s","e">>],
    [key   |-> <<"u","r","e","m","i","c"," ","p","l","a","t","e","l","e","t"," ","d","y","s","f","u","n","c","t","i","o","n">>,
     topic |-> <<"u","r","e","m","i","c"," ","p","l","a","t","e","l","e","t"," ","d","y","s","f","u","n","c","t","i","o","n">>],
    [key   |-> <<"h","e","m","o","p","h","i","l","i","a">>,
     topic |-> <<"h","e","m","o","p","h","i","l","i","a"," ","b","l","e","e","d","i","n","g"," ","d","i","s","o","r","d","e","r">>],
    [key   |-> <<"i","n","c","r","e","a","s","e","d"," ","p","t","/","p","t","t","/","b","t","/","d","-","d","i","m","e","r">>,
     topic |-> <<"d","i","s","s","e","m","i","n","a","t","e","d"," ","i","n","t","r","a","v","a","s","c","u","l","a","r"," ","c","o","a","g","u","l","a","t","i","o","n"," ","d","i","c">>],
    [key   |-> <<"d","i","s","s","e","m","i","n","a","t","e","d"," ","i","n","t","r","a","v","a","s","c","u","l","a","r"," ","c","o","a","g","u","l","a","t","i","o","n">>,
     topic |-> <<"d","i","s","s","e","m","i","n","a","t","e","d"," ","i","n","t","r","a","v","a","s","c","u","l","a","r"," ","c","o","a","g","u","l","a","t","i","o","n">>],
    [key   |-> <<"d","i","c">>,
     topic |-> <<"d","i","s","s","e","m","i","n","a","t","e","d"," ","i","n","t","r","a","v","a","s","c","u","l","a","r"," ","c","o","a","g","u","l","a","t","i","o","n">>],
    [key   |-> <<"f","a","c","t","o","r"," ","v"," ","l","e","i","d","e","n">>,
     topic |-> <<"f","a","c","t","o","r"," ","v"," ","l","e","i","d","e","n"," ","t","h","r","o","m","b","o","p","h","i","l","i","a">>],
    [key   |-> <<"a","n","t","i","t","h","r","o","m","b","i","n"," ","i","i","i"," ","d","e","f","i","c","i","e","n","c","y">>,
     topic |-> <<"a","n","t","i","t","h","r","o","m","b","i","n"," ","d","e","f","i","c","i","e","n","c","y">>],
    [key   |-> <<"a","n","t","i","p","h","o","s","p","h","o","l","i","p","i","d"," ","s","y","n","d","r","o","m","e">>,
     topic |-> <<"a","n","t","i","p","h","o","s","p","h","o","l","i","p","i","d"," ","s","y","n","d","r","o","m","e">>],
    [key   |-> <<"h","e","p","a","r","i","n","-","i","n","d","u","c","e","d"," ","t","h","r","o","m","b","o","c","y","t","o","p","e","n","i","a">>,
     topic |-> <<"h","e","p","a","r","i","n"," ","i","n","d","u","c","e","d"," ","t","h","r","o","m","b","o","c","y","t","o","p","e","n","i","a">>],
    [key   |-> <<"h","i","t">>,
     topic |-> <<"h","e","p","a","r","i","n"," ","i","n","d","u","c","e","d"," ","t","h","r","o","m","b","o","c","y","t","o","p","e","n","i","a">>],
    [key   |-> <<"f","a","c","t","o","r"," ","x","a"," ","i","n","h","i","b","i","t","o","r">>,
     topic |-> <<"r","i","v","a","r","o","x","a","b","a","n"," ","a","n","t","i","c","o","a","g","u","l","a","n","t">>],
    [key   |-> <<"b","r","i","d","g","i","n","g"," ","w","i","t","h"," ","h","e","p","a","r","i","n">>,
     topic |-> <<"w","a","r","f","a","r","i","n"," ","s","k","i","n"," ","n","e","c","r","o","s","i","s">>],
    [key   |-> <<"m","o","n","i","t","o","r"," ","w","i","t","h"," ","p","t","t">>,
     topic |-> <<"h","e","p","a","r","i","n"," ","a","n","t","i","c","o","a","g","u","l","a","t","i","o","n">>],
    [key   |-> <<"i","n","h","i","b","i","t","s"," ","v","i","t","a","m","i","n"," ","k">>,
     topic |-> <<"w","a","r","f","a","r","i","n"," ","a","n","t","i","c","o","a","g","u","l","a","t","i","o","n">>],
    [key   |-> <<"i","r","r","e","v","e","r","s","i","b","l","y"," ","i","n","h","i","b","i","t","s"," ","c","o","x">>,
     topic |-> <<"a","s","p","i","r","i","n"," ","a","n","t","i","p","l","a","t","e","l","e","t">>],
    [key   |-> <<"b","c","r","-","a","b","l"," ","f","u","s","i","o","n">>,
     topic |-> <<"c","h","r","o","n","i","c"," ","m","y","e","l","o","i","d"," ","l","e","u","k","e","m","i","a"," ","c","m","l">>],
    [key   |-> <<"t","-","c","e","l","l"," ","a","c","u","t","e"," ","l","y","m","p","h","o","b","l","a","s","t","i","c"," ","l","e","u","k","e","m","i","a">>,
     topic |-> <<"t","-","a","l","l"," ","a","c","u","t","e"," ","l","y","m","p","h","o","b","l","a","s","t","i","c"," ","l","e","u","k","e","m","i","a">>],
    [key   |-> <<"t","-","a","l","l">>,
     topic |-> <<"t","-","c","e","l","l"," ","a","c","u","t","e"," ","l","y","m","p","h","o","b","l","a","s","t","i","c"," ","l","e","u","k","e","m","i","a">>],
    [key   |-> <<"r","e","e","d","-","s","t","e","r","n","b","e","r","g"," ","c","e","l","l","s">>,
     topic |-> <<"h","o","d","g","k","i","n"," ","l","y","m","p","h","o","m","a">>],
    [key   |-> <<"c","l","a","d","r","i","b","i","n","e">>,
     topic |-> <<"h","a","i","r","y"," ","c","e","l","l"," ","l","e","u","k","e","m","i","a">>],
    [key   |-> <<"a","l","l","-","t","r","a","n","s"," ","r","e","t","i","n","o","i","c"," ","a","c","i","d">>,
     topic |-> <<"a","c","u","t","e"," ","p","r","o","m","y","e","l","o","c","y","t","i","c"," ","l","e","u","k","e","m","i","a"," ","a","p","l">>],
    [key   |-> <<"a","t","r","a">>,
     topic |-> <<"a","c","u","t","e"," ","p","r","o","m","y","e","l","o","c","y","t","i","c"," ","l","e","u","k","e","m","i","a">>],
    [key   |-> <<"t","h","r","o","m","b","o","l","y","t","i","c","s">>,
     topic |-> <<"t","h","r","o","m","b","o","l","y","t","i","c"," ","t","h","e","r","a","p","y"," ","t","p","a">>],
    [key   |-> <<"c","h","r","o","n","i","c"," ","l","y","m","p","h","o","c","y","t","i","c"," ","l","e","u","k","e","m","i","a">>,
     topic |-> <<"c","h","r","o","n","i","c"," ","l","y","m","p","h","o","c","y","t","i","c"," ","l","e","u","k","e","m","i","a"," ","c","l","l">>],
    [key   |-> <<"c","l","l">>,
     topic |-> <<"c","h","r","o","n","i","c"," ","l","y","m","p","h","o","c","y","t","i","c"," ","l","e","u","k","e","m","i","a">>],
    [key   |-> <<"b","u","r","k","i","t","t"," ","l","y","m","p","h","o","m","a">>,
     topic |-> <<"b","u","r","k","i","t","t"," ","l","y","m","p","h","o","m","a">>],
    [key   |-> <<"d","i","l","a","t","e","d"," ","c","a","r","d","i","o","m","y","o","p","a","t","h","y">>,
     topic |-> <<"d","o","x","o","r","u","b","i","c","i","n"," ","c","a","r","d","i","o","m","y","o","p","a","t","h","y">>],
    [key   |-> <<"m","a","r","g","i","n","a","l"," ","z","o","n","e"," ","l","y","m","p","h","o","m","a">>,
     topic |-> <<"m","a","l","t"," ","l","y","m","p","h","o","m","a">>],
    [key   |-> <<"n","e","u","t","r","o","p","e","n","i","c"," ","f","e","v","e","r">>,
     topic |-> <<"n","e","u","t","r","o","p","e","n","i","c"," ","f","e","v","e","r"," ","c","h","e","m","o","t","h","e","r","a","p","y">>],
    [key   |-> <<"b","u","s","u","l","f","a","n",","," ","b","l","e","o","m","y","c","i","n">>,
     topic |-> <<"p","u","l","m","o","n","a","r","y"," ","f","i","b","r","o","s","i","s"," ","c","h","e","m","o","t","h","e","r","a","p","y">>],
    [key   |-> <<"m","y","c","o","s","i","s"," ","f","u","n","g","o","i","d","e","s">>,
     topic |-> <<"m","y","c","o","s","i","s"," ","f","u","n","g","o","i","d","e","s"," ","c","u","t","a","n","e","o","u","s"," ","l","y","m","p","h","o","m","a">>],
    [key   |-> <<"6","-","m","p"," ","i","s"," ","d","e","g","r","a","d","e","d">>,
     topic |-> <<"m","e","r","c","a","p","t","o","p","u","r","i","n","e"," ","a","l","l","o","p","u","r","i","n","o","l">>],
    [key   |-> <<"e","l","e","v","a","t","e","d"," ","u","r","i","c"," ","a","c","i","d">>,
     topic |-> <<"t","u","m","o","r"," ","l","y","s","i","s"," ","s","y","n","d","r","o","m","e">>],
    [key   |-> <<"i","n","h","i","b","i","t","s"," ","m","i","c","r","o","t","u","b","u","l","e">>,
     topic |-> <<"v","i","n","c","r","i","s","t","i","n","e"," ","c","h","e","m","o","t","h","e","r","a","p","y">>],
    [key   |-> <<"p","r","i","m","a","r","y"," ","c","n","s"," ","l","y","m","p","h","o","m","a">>,
     topic |-> <<"p","r","i","m","a","r","y"," ","c","n","s"," ","l","y","m","p","h","o","m","a">>],
    [key   |-> <<"w","a","l","d","e","n","s","t","r","ö","m"," ","m","a","c","r","o","g","l","o","b","u","l","i","n","e","m","i","a">>,
     topic |-> <<"w","a","l","d","e","n","s","t","r","o","m"," ","m","a","c","r","o","g","l","o","b","u","l","i","n","e","m","i","a">>],
    [key   |-> <<"h","e","m","o","r","r","h","a","g","i","c"," ","c","y","s","t","i","t","i","s">>,
     topic |-> <<"c","y","c","l","o","p","h","o","s","p","h","a","m","i","d","e"," ","c","h","e","m","o","t","h","e","r","a","p","y">>],
    [key   |-> <<"p","r","o","t","e","a","s","o","m","e"," ","i","n","h","i","b","i","t","o","r">>,
     topic |-> <<"b","o","r","t","e","z","o","m","i","b"," ","m","u","l","t","i","p","l","e"," ","m","y","e","l","o","m","a">>],
    [key   |-> <<"l","e","u","c","o","v","o","r","i","n">>,
     topic |-> <<"m","e","t","h","o","t","r","e","x","a","t","e"," ","l","e","u","c","o","v","o","r","i","n"," ","r","e","s","c","u","e">>],
    [key   |-> <<"m","u","l","t","i","p","l","e"," ","m","y","e","l","o","m","a">>,
     topic |-> <<"m","u","l","t","i","p","l","e"," ","m","y","e","l","o","m","a">>]
  >>

\* a scan that lets the last matching entry win
LastMatch(answer_lower) ==
  LET hits == {i \in 1..Len(answer_to_topic) :
                 Contains(answer_lower, answer_to_topic[i].key)}
  IN  IF hits = {} THEN 0 ELSE Max(hits)
\* a scan that prefers the longest matching phrase
LongestMatch(answer_lower) ==
  LET hits == {i \in 1..Len(answer_to_topic) :
                 Contains(answer_lower, answer_to_topic[i].key)}
      best == {i \in hits : \A j \in hits :
                 Len(answer_to_topic[j].key) <= Len(answer_to_topic[i].key)}
  IN  IF hits = {} THEN 0 ELSE Min(best)
\* for key, topic in answer_to_topic.items(): if key in answer_lower: return
\* the index of the first entry, in dict order, whose key occurs in the
\* lowercased answer; 0 when none does
FirstMatch(answer_lower) ==
  LET hits == {i \in 1..Len(answer_to_topic) :
                 Contains(answer_lower, answer_to_topic[i].key)}
  IN  IF hits = {} THEN 0 ELSE Min(hits)

\* the prefixes removed one after another from the start of the answer
Prefixes == << <<"a","n","s","w","e","r",":">>, <<"t","h","e">>, <<"a">>, <<"a","n">> >>

\* if answer_clean.startswith(prefix): answer_clean = answer_clean[len(prefix):].strip()
RemovePrefix(s, p) ==
  IF StartsWith(s, p) THEN Strip(SubSeq(s, Len(p) + 1, Len(s))) ELSE s

RECURSIVE RemovePrefixes(_, _)
RemovePrefixes(s, ps) ==
  IF ps = <<>> THEN s ELSE RemovePrefixes(RemovePrefix(s, Head(ps)), Tail(ps))

\* the words the list comprehension drops whatever their length
SkipWords == { <<"t","h","e">>, <<"a","n","d">>, <<"o","r">>, <<"f","o","r">>, <<"w","i","t","h">> }

\* words = [w for w in answer_clean.split() if len(w) > 2 and w not in [...]]
MeaningfulWords(answer_clean) ==
  SelectSeq(Split(answer_clean), LAMBDA w : Len(w) > 2 /\ w \notin SkipWords)

\* a last resort that keeps the first word of the question only
QuestionFirstWord(qst) == Join(Take(Split(Lower(qst)), 1), <<" ">>)
\* q_words = question_lower.split()[:3]; return ' '.join(q_words)
QuestionTopic(qst) == Join(Take(Split(Lower(qst)), 3), <<" ">>)

\* words[:3] joined
FallbackTopic(words) == Join(Take(words, 3), <<" ">>)

\* an extract_topic without the last resort
extract_topic_answer_only(ans, qst) ==
  LET answer_lower == Lower(ans)
      hit          == FirstMatch(answer_lower)
      words        == MeaningfulWords(RemovePrefixes(answer_lower, Prefixes))
  IN  IF hit # 0 THEN answer_to_topic[hit].topic ELSE FallbackTopic(words)

extract_topic(ans, qst) ==
  LET answer_lower == Lower(ans)
      hit          == FirstMatch(answer_lower)
      words        == MeaningfulWords(RemovePrefixes(answer_lower, Prefixes))
  IN  IF hit # 0 THEN answer_to_topic[hit].topic
      ELSE IF words # <<>> THEN FallbackTopic(words)
      ELSE QuestionTopic(qst)

(***************************************************************************)
(* Inputs of extract_topic.                                                *)
(***************************************************************************)
\* text put before and after a table phrase
Leads  == { <<>>, <<"t","h","e"," ">>, <<"C","h","r","o","n","i","c"," ">> }
Trails == { <<>>, <<" ","(","s","e","v","e","r","e",")">>, <<".">> }

\* s.capitalize() as the quiz text writes its answers ("Iron deficiency anemia")
Capital(s) == IF s = <<>> THEN s ELSE <<UpperChar(s[1])>> \o Tail(s)

Casings == {"lower", "upper", "capital"}
Cased(s, c) == IF c = "upper" THEN Upper(s) ELSE IF c = "capital" THEN Capital(s) ELSE s

\* answers that contain one table phrase, in some letter case, inside other text
PhraseAnswers ==
  { l \o Cased(answer_to_topic[i].key, c) \o t :
      i \in 1..Len(answer_to_topic), c \in Casings, l \in Leads, t \in Trails }

\* answers that contain the phrases of two table entries
PairAnswers ==
  { Capital(answer_to_topic[i].key) \o <<" ","a","n","d"," ">> \o answer_to_topic[j].key :
      i \in 1..Len(answer_to_topic), j \in 1..Len(answer_to_topic) }

\* answers of the quiz text (CONTENT): questions 4, 26, 42 and 68
QuizAnswers ==
  { <<"A","l","p","h","a"," ","t","h","a","l","a","s","s","e","m","i","a"," ","m","a","j","o","r"," ","(","h","y","d","r","o","p","s"," ","f","e","t","a","l","i","s",")">>,
    <<"I","m","m","u","n","e"," ","t","h","r","o","m","b","o","c","y","t","o","p","e","n","i","c"," ","p","u","r","p","u","r","a"," ","(","I","T","P",")">>,
    <<"I","n","h","i","b","i","t","s"," ","v","i","t","a","m","i","n"," ","K"," ","e","p","o","x","i","d","e"," ","r","e","d","u","c","t","a","s","e",","," ","r","e","d","u","c","i","n","g"," ","s","y","n","t","h","e","s","i","s"," ","o","f"," ","f","a","c","t","o","r","s"," ","I","I",","," ","V","I","I",","," ","I","X",","," ","X",","," ","a","n","d"," ","p","r","o","t","e","i","n","s"," ","C"," ","a","n","d"," ","S">>,
    <<"I","r","o","n"," ","d","e","f","i","c","i","e","n","c","y"," ","a","n","e","m","i","a">> }

\* the words fallback answers are made of
AnswerVocabulary ==
  { <<"t","h","e">>, <<"a">>, <<"a","n">>, <<"a","n","s","w","e","r",":">>, <<"a","n","d">>,
    <<"A","p","l","a","s","t","i","c">>, <<"t","h","e","r","a","p","y">> }

RECURSIVE WordLists(_, _)
WordLists(V, n) ==
  IF n = 0 THEN { <<>> }
  ELSE LET shorter == WordLists(V, n - 1)
       IN  shorter \cup { Append(ws, w) : ws \in shorter, w \in V }

Separators == { <<" ">>, <<"\t", " ">> }

\* answers of up to MaxAnswerWords words
FallbackAnswers ==
  { Join(ws, <<" ">>) : ws \in WordLists(AnswerVocabulary, MaxAnswerWords) }
\* answers of one or two words, with and without surrounding blanks
ShortAnswers ==
  { Join(ws, sep) : ws \in WordLists(AnswerVocabulary, 2), sep \in Separators }
  \cup { <<" ">> \o Join(ws, <<" ">>) \o <<" ">> : ws \in WordLists(AnswerVocabulary, 2) }

\* answers of one short word that begins with the letter of an article
AcronymAnswers == { <<"A","L","S">>, <<"A","M","L">>, <<"A","n","y">> }

QuestionWords == << <<"W","h","a","t">>, <<"i","s">>, <<"t","h","e">>, <<"m","o","s","t">>, <<"l","i","k","e","l","y">>, <<"d","i","a","g","n","o","s","i","s","?">> >>

\* questions of up to MaxQuestionWords words; the empty and the blank question
\* the empty question, the blank one and a question of one word
EdgeQuestions == { <<>>, <<" ">>, QuestionWords[1] }
Questions ==
  { Join(Take(QuestionWords, n), <<" ">>) : n \in 0..MaxQuestionWords }
  \cup { <<" ">>, <<"\n">> \o Join(Take(QuestionWords, MaxQuestionWords), <<"\t", " ">>) \o <<" ">> }


(***************************************************************************)
(* The image directory.  A path is a stem and a suffix; a file is an SVG   *)
(* drawing, a decoded raster image (size, colour mode, number of citation  *)
(* bands it carries) or an undecodable file.                               *)
(***************************************************************************)
Suffixes == {".jpg", ".png", ".gif", ".svg"}
\* f"question_{q_num:02d}"
Digit == <<"0", "1", "2", "3", "4", "5", "6", "7", "8", "9">>
QuestionStem(q) == "question_" \o Digit[(q \div 10) + 1] \o Digit[(q % 10) + 1]
Stems == {QuestionStem(q) : q \in 1..NQuestions}
Paths == [stem : Stems, suffix : Suffixes]

\* Path.with_suffix
with_suffix(p, sfx) == [p EXCEPT !.suffix = sfx]

NoFile == [fmt |-> "none", width |-> 0, height |-> 0, mode |-> "-", bands |-> 0]
Junk   == [fmt |-> "junk", width |-> 0, height |-> 0, mode |-> "-", bands |-> 0]
Raster(w, h, m, b) == [fmt |-> "raster", width |-> w, height |-> h, mode |-> m, bands |-> b]
Svg(w, h) == [fmt |-> "svg", width |-> w, height |-> h, mode |-> "-", bands |-> 0]

\* Path.exists
Exists(dir, p) == dir[p].fmt # "none"
\* writing a file, and Path.unlink
Write(dir, p, f) == [dir EXCEPT ![p] = f]
Unlink(dir, p) == [dir EXCEPT ![p] = NoFile]

\* the colour modes Image.open reports
Modes == {"RGB", "RGBA", "LA", "P", "L"}

\* the fonts the fallback chain can end with
Fonts == {"Helvetica", "Arial", "default"}
\* the widths textbbox can report for a citation
TextWidths == {96, 640}
\* how far from its font size the measured height of a TrueType line can be
TextDeltas == {-1, 0}

\* what the platform does in one call: whether Pillow imports, which SVG
\* library imports, which SVG step fails, which rendering step fails, the
\* font found, and the width and height textbbox measures
SvgLibs == {"cairosvg", "svglib", "none"}
SvgFaults(lib) ==
  IF lib = "cairosvg" THEN {"none", "render", "open", "save"}
  ELSE IF lib = "svglib" THEN {"none", "render", "no_drawing", "save"}
  ELSE {"none"}
RenderFaults == {"open", "measure", "draw", "save"}

NoPillow ==
  [pil |-> FALSE, lib |-> "none", svg_fault |-> "none", render_fault |-> "none",
   font |-> "default", text_width |-> 0, text_delta |-> 0]
\* text_delta: measured height of a TrueType line minus its font size
RasterPlatforms ==
  { [pil |-> TRUE, lib |-> "none", svg_fault |-> "none", render_fault |-> rf,
     font |-> "default", text_width |-> 0, text_delta |-> 0] : rf \in RenderFaults }
  \cup { [pil |-> TRUE, lib |-> "none", svg_fault |-> "none", render_fault |-> "none",
          font |-> f, text_width |-> tw, text_delta |-> d] :
            f \in Fonts, tw \in TextWidths, d \in TextDeltas }
Platforms(sfx) ==
  IF sfx # ".svg" THEN {NoPillow} \cup RasterPlatforms
  ELSE {NoPillow} \cup
       UNION { { [pf EXCEPT !.lib = lib, !.svg_fault = sf] :
                   pf \in RasterPlatforms, sf \in SvgFaults(lib) } : lib \in SvgLibs }

(***************************************************************************)
(* convert_svg_to_jpg of download_cc_images.py.                            *)
(***************************************************************************)
\* the cairosvg branch: svg2png to the .png beside the JPG, Image.open,
\* convert('RGB'), save the JPG, unlink the .png
ConvertCairo(dir, svg_path, jpg_path, fault) ==
  LET png_path == with_suffix(jpg_path, ".png")
      drawn    == Write(dir, png_path, Raster(dir[svg_path].width, dir[svg_path].height, "RGBA", 0))
      saved    == Write(drawn, jpg_path, Raster(dir[svg_path].width, dir[svg_path].height, "RGB", 0))
  IN  IF dir[svg_path].fmt # "svg" \/ fault = "render" THEN [dir |-> dir, ret |-> FALSE]
      ELSE IF fault = "open" THEN [dir |-> drawn, ret |-> FALSE]
      ELSE IF fault = "save" THEN [dir |-> Write(drawn, jpg_path, Junk), ret |-> FALSE]
      ELSE [dir |-> Unlink(saved, png_path), ret |-> TRUE]

\* the svglib branch: svg2rlg, and drawToFile when there is a drawing; with
\* no drawing the function falls off its end and returns None
ConvertSvglib(dir, svg_path, jpg_path, fault) ==
  IF dir[svg_path].fmt # "svg" \/ fault = "render" \/ fault = "no_drawing"
    THEN [dir |-> dir, ret |-> FALSE]
  ELSE IF fault = "save" THEN [dir |-> Write(dir, jpg_path, Junk), ret |-> FALSE]
  ELSE [dir |-> Write(dir, jpg_path, Raster(dir[svg_path].width, dir[svg_path].height, "RGB", 0)),
        ret |-> TRUE]

convert_svg_to_jpg(dir, svg_path, jpg_path, pf) ==
  IF ~pf.pil THEN [dir |-> dir, ret |-> FALSE]
  ELSE IF pf.lib = "cairosvg" THEN ConvertCairo(dir, svg_path, jpg_path, pf.svg_fault)
  ELSE IF pf.lib = "svglib" THEN ConvertSvglib(dir, svg_path, jpg_path, pf.svg_fault)
  ELSE [dir |-> dir, ret |-> FALSE]

(***************************************************************************)
(* add_citation_overlay.                                                   *)
(***************************************************************************)
\* padding = 20
padding == 20

\* a font size without the floor of 16
font_size_unfloored(w, h) == (IF w < h THEN w ELSE h) \div 40
\* font_size = max(16, min(img.width, img.height) // 40)
font_size(w, h) ==
  LET smaller == IF w < h THEN w ELSE h
      scaled  == smaller \div 40
  IN  IF scaled > 16 THEN scaled ELSE 16

\* metadata.get(key, default)
Get(metadata, key, default) == IF key \in DOMAIN metadata THEN metadata[key] ELSE default

\* a citation with the author before the title
citation_text_author_first(metadata) ==
  Get(metadata, "author", <<"U","n","k","n","o","w","n">>) \o <<":"," ","\"">>
    \o Get(metadata, "title", Get(metadata, "filename", <<"I","m","a","g","e">>)) \o <<"\""," ">>
    \o Get(metadata, "license", <<"C","C">>)
\* a citation that writes Unknown for an empty author as well
citation_text_unknown_if_empty(metadata) ==
  LET author == Get(metadata, "author", <<"U","n","k","n","o","w","n">>)
  IN  <<"\"">> \o Get(metadata, "title", Get(metadata, "filename", <<"I","m","a","g","e">>)) \o <<"\""," ","b","y"," ">>
        \o (IF author = <<>> THEN <<"U","n","k","n","o","w","n">> ELSE author) \o <<" ">>
        \o Get(metadata, "license", <<"C","C">>)
\* title = metadata.get('title', metadata.get('filename', 'Image'))
\* author = metadata.get('author', 'Unknown')
\* license_text = metadata.get('license', 'CC')
\* citation_text = f'"{title}" by {author} {license_text}'
citation_text(metadata) ==
  LET title        == Get(metadata, "title", Get(metadata, "filename", <<"I","m","a","g","e">>))
      author       == Get(metadata, "author", <<"U","n","k","n","o","w","n">>)
      license_text == Get(metadata, "license", <<"C","C">>)
  IN  <<"\"">> \o title \o <<"\""," ","b","y"," ">> \o author \o <<" ">> \o license_text

\* the result of a call that did not get as far as saving
Failed(dir, why) ==
  [dir |-> dir, ret |-> FALSE, why |-> why, saved |-> "none",
   img_width |-> 0, img_height |-> 0, text_width |-> 0, text_height |-> 0,
   text_x |-> 0, text_y |-> 0, font_size |-> 0, font |-> "-", sized |-> FALSE,
   flatten |-> "-", text |-> <<>>]

\* an overlay that leaves an image alone that already carries a band
OverlaySkipCited(img, th) ==
  IF img.bands > 0 THEN Raster(img.width, img.height, "RGB", img.bands)
  ELSE Raster(img.width, img.height + th + (padding * 2), "RGB", img.bands + 1)
\* an overlay that leaves the padding out of the band
OverlayNoPadding(img, th) == Raster(img.width, img.height + th, "RGB", img.bands + 1)
\* overlay = Image.new('RGB', (img.width, img.height + overlay_height), white)
\* with the image pasted at (0, 0): overlay_height = text_height + padding * 2
Overlay(img, th) == Raster(img.width, img.height + th + (padding * 2), "RGB", img.bands + 1)

\* how the image is brought to RGB: pasted on white through its alpha band
\* (RGBA, and P after convert('RGBA')), pasted on white without a mask (LA),
\* left alone (RGB), or img.convert('RGB')
Flatten(mode) ==
  IF mode \in {"RGBA", "P"} THEN "alpha_mask"
  ELSE IF mode = "LA" THEN "no_mask"
  ELSE IF mode = "RGB" THEN "none"
  ELSE "convert"

\* whether font_size reaches the font: ImageFont.truetype(path, font_size) for
\* Helvetica and Arial, ImageFont.load_default() without a size
Sized(font) == font # "default"

\* a measurement that always comes to the font size
MeasuredAsFontSize(pf, size) == size
\* bbox = draw.textbbox((0, 0), citation_text, font=font): the built-in font
\* has one size, a TrueType line is about as tall as its font size
MeasuredHeight(pf, size) == IF pf.font = "default" THEN 11 ELSE size + pf.text_delta

\* a rendering that opens its output file for writing before it measures
RenderTruncating(dir, image_path, text, pf) ==
  LET img == dir[image_path]
      fs  == font_size(img.width, img.height)
      tw  == pf.text_width
      th  == MeasuredHeight(pf, fs)
      out == Overlay(img, th)
  IN  IF img.fmt # "raster" \/ pf.render_fault = "open" THEN Failed(dir, "open")
      ELSE IF pf.render_fault = "measure" THEN Failed(Write(dir, image_path, Junk), "measure")
      ELSE IF pf.render_fault = "draw" THEN Failed(Write(dir, image_path, Junk), "draw")
      ELSE IF pf.render_fault = "save"
        THEN [Failed(Write(dir, image_path, Junk), "save") EXCEPT !.saved = image_path.suffix]
      ELSE [dir |-> Write(dir, image_path, out), ret |-> TRUE, why |-> "ok",
            saved |-> image_path.suffix,
            img_width |-> img.width, img_height |-> img.height,
            text_width |-> tw, text_height |-> th,
            text_x |-> (out.width - tw) \div 2, text_y |-> img.height + padding,
            font_size |-> fs, font |-> pf.font, sized |-> Sized(pf.font),
            flatten |-> Flatten(img.mode),
            text |-> text]

\* from Image.open to overlay.save: both scripts' add_citation_overlay share
\* these lines
Render(dir, image_path, text, pf) ==
  LET img == dir[image_path]
      fs  == font_size(img.width, img.height)
      tw  == pf.text_width
      th  == MeasuredHeight(pf, fs)
      out == Overlay(img, th)
  IN  IF img.fmt # "raster" \/ pf.render_fault = "open" THEN Failed(dir, "open")
      ELSE IF pf.render_fault = "measure" THEN Failed(dir, "measure")
      ELSE IF pf.render_fault = "draw" THEN Failed(dir, "draw")
      ELSE IF pf.render_fault = "save"
        THEN [Failed(Write(dir, image_path, Junk), "save") EXCEPT !.saved = image_path.suffix]
      ELSE [dir |-> Write(dir, image_path, out), ret |-> TRUE, why |-> "ok",
            saved |-> image_path.suffix,
            img_width |-> img.width, img_height |-> img.height,
            text_width |-> tw, text_height |-> th,
            text_x |-> (out.width - tw) \div 2, text_y |-> img.height + padding,
            font_size |-> fs, font |-> pf.font, sized |-> Sized(pf.font),
            flatten |-> Flatten(img.mode),
            text |-> text]

\* an overlay that removes the SVG before it knows the conversion worked
add_citation_overlay_unlink_first(dir, image_path, metadata, pf) ==
  IF ~pf.pil THEN Failed(dir, "no_pillow")
  ELSE IF image_path.suffix = ".svg"
    THEN LET jpg_path == with_suffix(image_path, ".jpg")
             conv     == convert_svg_to_jpg(dir, image_path, jpg_path, pf)
         IN  IF conv.ret
               THEN Render(Unlink(conv.dir, image_path), jpg_path, citation_text(metadata), pf)
               ELSE Failed(Unlink(conv.dir, image_path), "svg_conversion")
  ELSE Render(dir, image_path, citation_text(metadata), pf)

\* download_cc_images.add_citation_overlay(image_path, metadata)
add_citation_overlay(dir, image_path, metadata, pf) ==
  IF ~pf.pil THEN Failed(dir, "no_pillow")
  ELSE IF image_path.suffix = ".svg"
    THEN LET jpg_path == with_suffix(image_path, ".jpg")
             conv     == convert_svg_to_jpg(dir, image_path, jpg_path, pf)
         IN  IF conv.ret
               THEN Render(Unlink(conv.dir, image_path), jpg_path, citation_text(metadata), pf)
               ELSE Failed(conv.dir, "svg_conversion")
  ELSE Render(dir, image_path, citation_text(metadata), pf)

\* add_citations.add_citation_overlay(image_path, citation_text)
add_citation_overlay_text(dir, image_path, text, pf) ==
  IF image_path.suffix = ".svg" THEN Failed(dir, "svg")
  ELSE Render(dir, image_path, text, pf)

(***************************************************************************)
(* Wikimedia Commons as the scripts see it: the titles a search returns,   *)
(* the file type of each and the licence text its page states.             *)
(***************************************************************************)
Titles == {"File:Blood film.jpg", "File:Heme pathway.svg", "File:Spleen drawing.jpg",
           "Category:Anemia"}

\* filename.startswith('File:')
IsFileTitle(title) == title # "Category:Anemia"

\* the suffix found in the file name and URL of a title
TitleSuffix(title) == IF title = "File:Heme pathway.svg" THEN ".svg" ELSE ".jpg"

\* what the Commons API answers for a title: extmetadata's ObjectName, Artist
\* and License values and the user of the latest revision
Page(name, artist, user, license_info) ==
  [object_name |-> name, artist |-> artist, user |-> user, license_info |-> license_info]
PageOf(title) ==
  IF title = "File:Blood film.jpg"
    THEN Page(<<"B","l","o","o","d"," ","f","i","l","m">>, <<"<","a"," ","h","r","e","f","=","\"","/","w","i","k","i","/","U","s","e","r",":","J","D","\"",">","J","a","n","e"," ","D","o","e","<","/","a",">">>, <<"J","D">>, <<"c","c","-","b","y","-","s","a","-","4",".","0">>)
  ELSE IF title = "File:Heme pathway.svg"
    THEN Page(<<>>, <<>>, <<"U","p","l","o","a","d","e","r">>, <<"c","c","0">>)
  ELSE Page(<<"S","p","l","e","e","n">>, <<>>, <<>>, <<"G","N","U"," ","F","r","e","e"," ","D","o","c","u","m","e","n","t","a","t","i","o","n"," ","L","i","c","e","n","s","e">>)
\* extmetadata['License']['value'] of a title
LicenseInfo(title) == PageOf(title).license_info

\* the licence text names a Creative Commons licence
IsCreativeCommons(license_info) ==
  LET l == Lower(license_info)
  IN  Contains(l, <<"c","c","-","b","y">>) \/ Contains(l, <<"c","c"," ","b","y">>) \/ Contains(l, <<"c","c","0">>)
        \/ Contains(l, <<"c","r","e","a","t","i","v","e"," ","c","o","m","m","o","n","s">>)

\* the image a download of a title writes
Downloaded(title) ==
  IF TitleSuffix(title) = ".svg" THEN Svg(400, 300) ELSE Raster(400, 300, "RGB", 0)

\* ext = '.jpg', or '.png' / '.gif' / '.svg' when the URL or the name holds it
Ext(title) ==
  LET sfx == TitleSuffix(title)
  IN  IF sfx = ".png" THEN ".png"
      ELSE IF sfx = ".gif" THEN ".gif"
      ELSE IF sfx = ".svg" THEN ".svg"
      ELSE ".jpg"

(***************************************************************************)
(* get_image_metadata: the record built from the page of a file.           *)
(***************************************************************************)
\* the version suffix of a short-code: '2.0', '3.0' or '4.0' in license_info
Versioned(base, license_info) ==
  IF Contains(license_info, <<"2",".","0">>) THEN base \o <<" ","2",".","0">>
  ELSE IF Contains(license_info, <<"3",".","0">>) THEN base \o <<" ","3",".","0">>
  ELSE IF Contains(license_info, <<"4",".","0">>) THEN base \o <<" ","4",".","0">>
  ELSE base

\* a chain that looks for the share-alike licence before the attribution one
license_short_sa_first(license_info) ==
  LET l == Lower(license_info)
  IN  IF Contains(l, <<"c","c","-","b","y","-","s","a">>)
        THEN Versioned(<<"C","C"," ","B","Y","-","S","A">>, license_info)
      ELSE IF Contains(l, <<"c","c","-","b","y">>) \/ Contains(l, <<"c","c"," ","b","y">>)
        THEN Versioned(<<"C","C"," ","B","Y">>, license_info)
      ELSE IF Contains(l, <<"c","c","0">>) \/ Contains(l, <<"p","u","b","l","i","c"," ","d","o","m","a","i","n">>)
        THEN <<"C","C","0">>
      ELSE <<"C","C">>
\* a chain that hands the raw licence text on when it recognises nothing
license_short_raw_default(license_info) ==
  LET l == Lower(license_info)
  IN  IF Contains(l, <<"c","c","-","b","y">>) \/ Contains(l, <<"c","c"," ","b","y">>)
        THEN Versioned(<<"C","C"," ","B","Y">>, license_info)
      ELSE IF Contains(l, <<"c","c","0">>) \/ Contains(l, <<"p","u","b","l","i","c"," ","d","o","m","a","i","n">>)
        THEN <<"C","C","0">>
      ELSE license_info
\* license_short, from the if / elif chain over license_info
license_short(license_info) ==
  LET l == Lower(license_info)
  IN  IF Contains(l, <<"c","c","-","b","y">>) \/ Contains(l, <<"c","c"," ","b","y">>)
        THEN Versioned(<<"C","C"," ","B","Y">>, license_info)
      ELSE IF Contains(l, <<"c","c","-","b","y","-","s","a">>)
        THEN Versioned(<<"C","C"," ","B","Y","-","S","A">>, license_info)
      ELSE IF Contains(l, <<"c","c","0">>) \/ Contains(l, <<"p","u","b","l","i","c"," ","d","o","m","a","i","n">>)
        THEN <<"C","C","0">>
      ELSE <<"C","C">>

\* re.sub(r'<[^>]+>', '', author): from left to right, a '<' followed by one or
\* more characters other than '>' and then a '>' is removed
RECURSIVE RemoveTags(_)
RemoveTags(s) ==
  IF s = <<>> THEN <<>>
  ELSE LET closing == {j \in 3..Len(s) : s[j] = ">" /\ \A k \in 2..(j - 1) : s[k] # ">"}
       IN  IF s[1] = "<" /\ closing # {}
             THEN RemoveTags(SubSeq(s, Min(closing) + 1, Len(s)))
             ELSE <<s[1]>> \o RemoveTags(Tail(s))

\* filename.replace('File:', '').strip()
filename_clean(filename) ==
  IF filename = "File:Blood film.jpg" THEN <<"B","l","o","o","d"," ","f","i","l","m",".","j","p","g">>
  ELSE IF filename = "File:Heme pathway.svg" THEN <<"H","e","m","e"," ","p","a","t","h","w","a","y",".","s","v","g">>
  ELSE IF filename = "File:Spleen drawing.jpg" THEN <<"S","p","l","e","e","n"," ","d","r","a","w","i","n","g",".","j","p","g">>
  ELSE <<"C","a","t","e","g","o","r","y",":","A","n","e","m","i","a">>

\* author: the Artist value, else the user of the latest revision, else
\* 'Unknown'; then without its HTML tags and stripped, and 'Unknown' if
\* nothing is left
Author(page) ==
  LET named   == IF page.artist # <<>> THEN page.artist
                 ELSE IF page.user # <<>> THEN page.user
                 ELSE <<"U","n","k","n","o","w","n">>
      cleaned == Strip(RemoveTags(named))
  IN  IF cleaned = <<>> THEN <<"U","n","k","n","o","w","n">> ELSE cleaned

\* the record get_image_metadata returns for a file whose page answers
metadata_of(name, page) ==
  [title    |-> IF page.object_name # <<>> THEN page.object_name ELSE name,
   author   |-> Author(page),
   license  |-> license_short(page.license_info),
   filename |-> name]
get_image_metadata(title) == metadata_of(filename_clean(title), PageOf(title))

\* the metadata main builds for an Unsplash photo: the keyword is the topic
UnsplashMetadata ==
  [title |-> <<"a","n","e","m","i","a">>, author |-> <<"U","n","s","p","l","a","s","h">>, license |-> <<"U","n","s","p","l","a","s","h"," ","L","i","c","e","n","s","e">>,
   filename |-> <<"q","u","e","s","t","i","o","n","_","0","1">>]

(***************************************************************************)
(* download_log.txt as a sequence of entries, one per group of lines.      *)
(***************************************************************************)
\* "Question N: topic" with the Question: and Answer: lines under it
LogQuestion(q) == [k |-> "question", q |-> q, file |-> "-"]
\* "  Downloading: File:..."
LogDownloading(title) == [k |-> "downloading", q |-> 0, file |-> title]
\* any other line
LogLine(kind) == [k |-> kind, q |-> 0, file |-> "-"]

\* first index >= i of an entry of kind k, 0 when there is none
FindEntry(lg, i, kind) ==
  LET at == {j \in i..Len(lg) : lg[j].k = kind}
  IN  IF at = {} THEN 0 ELSE Min(at)

\* re.finditer(r'Question (\d+):.*?Downloading: (File:[^\n]+)\n.*?URL: ([^\n]+)',
\* content, re.DOTALL): from a question line lazily to the next Downloading:
\* line and to the next URL: line, then on from there
RECURSIVE LogMatches(_, _)
LogMatches(lg, i) ==
  LET a == FindEntry(lg, i, "question")
      b == IF a = 0 THEN 0 ELSE FindEntry(lg, a + 1, "downloading")
      c == IF b = 0 THEN 0 ELSE FindEntry(lg, b + 1, "url")
  IN  IF c = 0 THEN <<>>
      ELSE <<[q_num |-> lg[a].q, wikimedia_filename |-> lg[b].file]>> \o LogMatches(lg, c + 1)

\* output_dir / f"question_{q_num:02d}{ext}"
QuestionPath(q, sfx) == [stem |-> QuestionStem(q), suffix |-> sfx]

\* for ext in ['.jpg', '.png', '.svg', '.gif']: the first that exists
ExtOrder == <<".jpg", ".png", ".svg", ".gif">>
LocalPath(dir, q) ==
  LET found == {i \in 1..Len(ExtOrder) : Exists(dir, QuestionPath(q, ExtOrder[i]))}
  IN  IF found = {} THEN <<>> ELSE <<QuestionPath(q, ExtOrder[Min(found)])>>

\* extract_filenames_from_log: the matches whose question has a local file
RECURSIVE WithLocalPath(_, _)
WithLocalPath(dir, ms) ==
  IF ms = <<>> THEN <<>>
  ELSE LET m  == Head(ms)
           lp == LocalPath(dir, m.q_num)
       IN  (IF lp = <<>> THEN <<>>
            ELSE <<[q_num |-> m.q_num, wikimedia_filename |-> m.wikimedia_filename,
                    local_path |-> lp[1]]>>)
           \o WithLocalPath(dir, Tail(ms))
extract_filenames_from_log(lg, dir) == WithLocalPath(dir, LogMatches(lg, 1))

(***************************************************************************)
(* The citation step of an item, and the neurology_images directory that   *)
(* process_svg_files and convert_svg_with_citations work on.               *)
(***************************************************************************)
\* what came of add_citation_overlay: the image is cited, or the call
\* returned False, after it had started to save the image or before
Cite(r) ==
  IF r.ret THEN "cited" ELSE IF r.why = "save" THEN "save_failed" ELSE "overlay_failed"
Item(script, path, cite) == [script |-> script, item |-> path, cite |-> cite]

\* the image of an item can still be decoded: the file itself, or the JPG an
\* SVG was converted to
Decodable(dir, p) ==
  IF Exists(dir, p) THEN dir[p].fmt \in {"raster", "svg"}
  ELSE dir[with_suffix(p, ".jpg")].fmt = "raster"

\* f"question_{q_num:02d}_option_{option_letter}"
NeurologyStems == {"question_01_option_a", "question_01_option_b"}
NeurologyPaths == [stem : NeurologyStems, suffix : Suffixes]
\* the characters of a stem
StemText(stem) ==
  IF stem = "question_01_option_a" THEN <<"q","u","e","s","t","i","o","n","_","0","1","_","o","p","t","i","o","n","_","a">> ELSE <<"q","u","e","s","t","i","o","n","_","0","1","_","o","p","t","i","o","n","_","b">>
\* q_num = svg_path.stem.replace('question_', '')
StemQNum(stem) == SubSeq(StemText(stem), 10, Len(StemText(stem)))

\* the directories the two-option download leaves SVG files in: option A as
\* an SVG (whole or cut short), with or without a JPG of an earlier
\* conversion, and option B missing, as an SVG or as a JPG
NeurologyEmpty == [p \in NeurologyPaths |-> NoFile]
NeurologyDirs ==
  { Write(Write(Write(Write(NeurologyEmpty,
        [stem |-> "question_01_option_a", suffix |-> ".svg"], a_svg),
        [stem |-> "question_01_option_a", suffix |-> ".jpg"], a_jpg),
        [stem |-> "question_01_option_b", suffix |-> ".svg"], b.svg),
        [stem |-> "question_01_option_b", suffix |-> ".jpg"], b.jpg) :
      a_svg \in {Svg(400, 300), Junk},
      a_jpg \in {NoFile, Raster(400, 351, "RGB", 1)},
      b \in { [svg |-> NoFile, jpg |-> NoFile], [svg |-> Svg(400, 300), jpg |-> NoFile],
              [svg |-> NoFile, jpg |-> Raster(400, 300, "RGB", 0)] } }

\* "  Downloading option A: File:..."
LogDownloadingOption(title) == [k |-> "downloading_option", q |-> 0, file |-> title]
\* the log the two-option download writes for a question whose two images
\* were saved without a citation
NeurologyLog ==
  <<LogLine("header"), LogQuestion(1),
    LogDownloadingOption("File:Heme pathway.svg"), LogLine("url"), LogLine("saved_overlay_failed"),
    LogDownloadingOption("File:Heme pathway.svg"), LogLine("url"), LogLine("saved_no_metadata")>>

\* the text in front of "Downloading: " on a Downloading line
DownloadingIndent == <<" "," ">>
\* re.search(rf'{svg_path.stem}.*?Downloading: (File:[^\n]+)', content): the
\* dot matches no line break, so the stem has to stand in front of
\* "Downloading: " on a Downloading line
ProcessSvgMatch(lg, stem) ==
  LET at == {i \in DOMAIN lg : lg[i].k = "downloading" /\ Contains(DownloadingIndent, StemText(stem))}
  IN  IF at = {} THEN <<>> ELSE <<lg[Min(at)].file>>

\* f"Question {q_num}: " as the scripts write it: the number without padding
Decimal(q) == IF q < 10 THEN <<Digit[q + 1]>> ELSE <<Digit[(q \div 10) + 1], Digit[(q % 10) + 1]>>
\* re.search(rf'Question {q_num}:.*?Downloading: (File:[^\n]+)', log_content,
\* re.DOTALL): from the line of question q_num lazily to the next
\* Downloading line
ConvertSvgMatch(lg, stem) ==
  LET qs == {i \in DOMAIN lg : lg[i].k = "question" /\ Decimal(lg[i].q) = StemQNum(stem)}
      ds == IF qs = {} THEN {} ELSE {j \in DOMAIN lg : j > Min(qs) /\ lg[j].k = "downloading"}
  IN  IF ds = {} THEN <<>> ELSE <<lg[Min(ds)].file>>

\* the orders in which glob can list a set of files
Orders(files) ==
  { order \in UNION { [1..n -> files] : n \in {Cardinality(files)} } :
      \A i, j \in DOMAIN order : i # j => order[i] # order[j] }

(***************************************************************************)
(* State.                                                                  *)
(***************************************************************************)
VARIABLES
  answer,     \* extract_topic's answer argument
  question,   \* extract_topic's question argument
  topic,      \* the string extract_topic returned
  tpc,        \* "call" before extract_topic has run, "done" after
  fs,         \* the image directory: path -> file
  last,       \* the last add_citation_overlay call: arguments and outcome
  ncalls,     \* number of add_citation_overlay calls made
  running,    \* the script that runs: "none", "download", "add_citations"
  runs,       \* number of script runs started
  idx,        \* main: the number of the question the loop is at
  log,        \* download_log.txt
  downloaded_count,   \* main: downloaded_count
  failed_count,       \* main: failed_count
  paused,     \* main: the last iteration ended with time.sleep(0.5)
  counted,    \* the downloads main saved and counted, with their licence
  images,     \* add_citations_to_existing.main: the images still to process
  pending,    \* main: the search results still to try for the question
  folder,     \* the directory fs stands for: "downloaded_images" or "neurology_images"
  success_count,      \* success_count (success) of the script that runs
  skip_count,         \* add_citations_to_existing.main: skip_count
  fail_count,         \* fail_count (failed) of the script that runs
  step,       \* the last citation step of the running script: the script, the image
              \* and what came of the citation
  page,       \* what the Commons API answers for the file looked up
  handed,     \* the metadata record a script hands to add_citation_overlay
  mpc,        \* how the record was built: "build" before, then "wikimedia" or "unsplash"
  thr,        \* the two concurrent invocations: arguments, position, local image, result
  fs0,        \* the directory the concurrent invocations started on
  tried,      \* main: the search strategies tried for the question, in order
  images_downloaded,  \* two-option main: images saved for the question
  query_idx,  \* download_pharmacology_images.main: index of the query the loop is at
  content,    \* extract_questions: the quiz text, piece by piece
  questions,  \* extract_questions: the records returned
  qpc         \* "call" before extract_questions has run, "done" after

topicVars == <<answer, question, topic, tpc>>
overlayVars == <<fs, last, ncalls>>
scriptVars == <<running, runs, idx, log, downloaded_count, failed_count, paused, counted, images,
                pending, folder, success_count, skip_count, fail_count, step,
                tried, images_downloaded, query_idx>>
optionVars == <<images_downloaded, query_idx>>
questionVars == <<content, questions, qpc>>
metadataVars == <<page, handed, mpc>>
threadVars == <<thr, fs0>>
vars == <<answer, question, topic, tpc, fs, last, ncalls,
          running, runs, idx, log, downloaded_count, failed_count, paused, counted, images,
          pending, folder, success_count, skip_count, fail_count, step,
          page, handed, mpc, thr, fs0,
          tried, images_downloaded, query_idx, content, questions, qpc>>

\* no item processed yet
NoStep == [script |-> "none", item |-> [stem |-> "-", suffix |-> "-"], cite |-> "none"]

\* the values of the variables a specification does not use
IdleTopic == answer = <<>> /\ question = <<>> /\ topic = <<>> /\ tpc = "idle"
IdleOverlay == last = [fn |-> "none"] /\ ncalls = 0
IdleScripts ==
  /\ running = "none" /\ runs = 0 /\ idx = 0 /\ log = <<>>
  /\ downloaded_count = 0 /\ failed_count = 0 /\ paused = FALSE
  /\ counted = {} /\ images = <<>> /\ pending = 0
  /\ folder = "downloaded_images"
  /\ success_count = 0 /\ skip_count = 0 /\ fail_count = 0
  /\ step = NoStep
  /\ tried = <<>> /\ images_downloaded = 0 /\ query_idx = 0
IdleMetadata == page = <<>> /\ handed = <<>> /\ mpc = "idle"
IdleThreads == thr = <<>> /\ fs0 = <<>>
IdleQuestions == content = <<>> /\ questions = <<>> /\ qpc = "idle"


(***************************************************************************)
(* extract_topic applied to one (answer, question).                        *)
(***************************************************************************)
InitTopic ==
  /\ \/ answer \in PhraseAnswers \cup QuizAnswers /\ question \in { <<>>, QuestionWords[1] }
     \/ answer \in PairAnswers /\ question = QuestionWords[1]
     \/ answer \in FallbackAnswers /\ question \in EdgeQuestions
     \/ answer \in ShortAnswers /\ question \in Questions
     \/ answer \in AcronymAnswers /\ question \in Questions
  /\ topic = <<>>
  /\ tpc = "call"
  /\ fs = <<>>
  /\ IdleOverlay
  /\ IdleScripts
  /\ IdleMetadata
  /\ IdleThreads
  /\ IdleQuestions

\* topic = extract_topic(answer, q_text)
ExtractTopic ==
  /\ tpc = "call"
  /\ topic' = extract_topic(answer, question)
  /\ tpc' = "done"
  /\ UNCHANGED <<answer, question>>
  /\ UNCHANGED <<overlayVars, scriptVars, metadataVars, threadVars, questionVars>>

NextTopic == ExtractTopic

SpecTopic == InitTopic /\ [][NextTopic]_vars

(***************************************************************************)
(* add_citation_overlay applied, up to MaxCalls times, to the files of a   *)
(* directory.                                                              *)
(***************************************************************************)
\* the images a download leaves in the directory, by suffix
ImageKinds(sfx) ==
  IF sfx = ".jpg" THEN { Raster(400, 300, "RGB", 0), Raster(400, 300, "L", 0),
                         Raster(1280, 960, "RGB", 0) }
  ELSE IF sfx = ".png" THEN { Raster(400, 300, "RGBA", 0), Raster(400, 300, "LA", 0),
                              Raster(400, 300, "P", 0) }
  ELSE IF sfx = ".gif" THEN { Raster(400, 300, "P", 0) }
  ELSE { Svg(400, 300), Svg(1280, 960) }

EmptyDir == [p \in Paths |-> NoFile]

\* directories with one image of a question
FirstPaths == {p \in Paths : p.stem = QuestionStem(1)}
SoloDirs == UNION { { Write(EmptyDir, p, f) : f \in ImageKinds(p.suffix) } : p \in FirstPaths }

\* directories with an SVG beside an image an earlier run saved for the same
\* question
PairDirs ==
  UNION { { Write(Write(EmptyDir, with_suffix(p, ".svg"), Svg(400, 300)), p, f) :
              f \in {Raster(400, 300, "RGB", 0)} } :
          p \in {q \in FirstPaths : q.suffix \in {".jpg", ".png"}} }

InitOverlay ==
  /\ fs \in SoloDirs \cup PairDirs
  /\ IdleOverlay
  /\ IdleTopic
  /\ IdleScripts
  /\ IdleMetadata
  /\ IdleThreads
  /\ IdleQuestions

\* the metadata records handed over: one with every field, one with an empty
\* title and an empty author, one without an author and one with a file
\* name only
Metadatas ==
  { [title |-> <<"B","l","o","o","d"," ","f","i","l","m">>, author |-> <<"J","a","n","e"," ","D","o","e">>, license |-> <<"C","C"," ","B","Y"," ","2",".","0">>],
    [title |-> <<>>, author |-> <<>>, license |-> <<"C","C","0">>],
    [title |-> <<"S","p","l","e","e","n">>, license |-> <<"C","C">>],
    [filename |-> <<"H","e","m","e"," ","p","a","t","h","w","a","y",".","s","v","g">>] }

\* what a call leaves in last: the function, its arguments, the directory
\* before the call, and the outcome without the directory
Called(fn, p, md, before, r) ==
  [fn |-> fn, path |-> p, metadata |-> md, before |-> before, ret |-> r.ret, why |-> r.why,
   saved |-> r.saved, img_width |-> r.img_width, img_height |-> r.img_height,
   text_width |-> r.text_width, text_height |-> r.text_height,
   text_x |-> r.text_x, text_y |-> r.text_y, font_size |-> r.font_size,
   font |-> r.font, sized |-> r.sized, flatten |-> r.flatten, text |-> r.text]

\* download_cc_images.add_citation_overlay(image_path, metadata)
CallOverlay(p, md, pf) ==
  /\ ncalls < MaxCalls
  /\ Exists(fs, p)
  /\ LET r == add_citation_overlay(fs, p, md, pf)
     IN  /\ fs' = r.dir
         /\ last' = Called("download_cc_images", p, md, fs, r)
  /\ ncalls' = ncalls + 1
  /\ UNCHANGED <<topicVars, scriptVars, metadataVars, threadVars, questionVars>>

\* add_citations.add_citation_overlay(image_path, citation_text)
CallOverlayText(p, md, pf) ==
  /\ ncalls < MaxCalls
  /\ Exists(fs, p)
  /\ LET r == add_citation_overlay_text(fs, p, citation_text(md), pf)
     IN  /\ fs' = r.dir
         /\ last' = Called("add_citations", p, md, fs, r)
  /\ ncalls' = ncalls + 1
  /\ UNCHANGED <<topicVars, scriptVars, metadataVars, threadVars, questionVars>>

NextOverlay ==
  \E p \in Paths, md \in Metadatas :
    \/ \E pf \in Platforms(p.suffix) : CallOverlay(p, md, pf)
    \/ \E pf \in RasterPlatforms : CallOverlayText(p, md, pf)

SpecOverlay == InitOverlay /\ [][NextOverlay]_vars

(***************************************************************************)
(* The metadata records handed to add_citation_overlay: the record         *)
(* get_image_metadata builds from the page of a file, and the record main  *)
(* builds for an Unsplash photo.                                           *)
(***************************************************************************)
\* raw licence texts: a licence name in one of its spellings and a version
LicenseNames == {<<>>, <<"c","c","-","b","y">>, <<"c","c","-","b","y","-","s","a">>, <<"C","C"," ","B","Y">>, <<"C","C"," ","B","Y","-","S","A">>, <<"C","C","-","B","Y","-","S","A">>,
                 <<"c","c","0">>, <<"P","u","b","l","i","c"," ","d","o","m","a","i","n">>, <<"p","d">>, <<"G","F","D","L">>}
LicenseVersions == {<<>>, <<"-","2",".","0">>, <<"-","2",".","5">>, <<"-","3",".","0">>, <<"-","4",".","0">>}
RawLicenses == { n \o v : n \in LicenseNames, v \in LicenseVersions }

\* the pages the API may answer with
Pages ==
  { Page(name, artist, user, license_info) :
      name \in {<<>>, <<"B","l","o","o","d"," ","f","i","l","m">>},
      artist \in {<<>>, <<"<","b",">","<","/","b",">">>, <<"<","a"," ","h","r","e","f","=","\"","/","w","i","k","i","/","U","s","e","r",":","J","D","\"",">","J","a","n","e"," ","D","o","e","<","/","a",">">>},
      user \in {<<>>, <<"J","D">>},
      license_info \in RawLicenses }

InitMetadata ==
  /\ page \in Pages
  /\ handed = <<>>
  /\ mpc = "build"
  /\ fs = EmptyDir
  /\ IdleScripts
  /\ IdleThreads
  /\ IdleQuestions
  /\ IdleOverlay
  /\ IdleTopic

\* metadata = get_image_metadata(filename) in main's loop over the results
WikimediaMetadata ==
  /\ mpc = "build"
  /\ handed' = metadata_of(<<"B","l","o","o","d"," ","f","i","l","m",".","j","p","g">>, page)
  /\ mpc' = "wikimedia"
  /\ UNCHANGED <<page, topicVars, overlayVars, scriptVars, threadVars, questionVars>>

\* metadata = {...} in main's Unsplash fallback
UnsplashFallback ==
  /\ mpc = "build"
  /\ handed' = UnsplashMetadata
  /\ mpc' = "unsplash"
  /\ UNCHANGED <<page, topicVars, overlayVars, scriptVars, threadVars, questionVars>>

NextMetadata ==
  \/ WikimediaMetadata
  \/ UnsplashFallback

SpecMetadata == InitMetadata /\ [][NextMetadata]_vars

(***************************************************************************)
(* The batch scripts, run one after another: download_cc_images.main and   *)
(* add_citations_to_existing.main on the downloaded_images directory,      *)
(* process_svg_files and convert_svg_with_citations.main on the            *)
(* neurology_images directory.                                             *)
(***************************************************************************)
InitScripts ==
  /\ \/ /\ folder = "downloaded_images"
        /\ fs = EmptyDir
        /\ log = <<>>
     \/ /\ folder = "neurology_images"
        /\ fs \in NeurologyDirs
        /\ log \in {<<>>, NeurologyLog}
  /\ running = "none" /\ runs = 0 /\ idx = 0
  /\ downloaded_count = 0 /\ failed_count = 0 /\ paused = FALSE
  /\ counted = {} /\ images = <<>> /\ pending = 0
  /\ success_count = 0 /\ skip_count = 0 /\ fail_count = 0
  /\ step = NoStep
  /\ tried = <<>> /\ images_downloaded = 0 /\ query_idx = 0
  /\ IdleMetadata
  /\ IdleThreads
  /\ IdleQuestions
  /\ IdleOverlay
  /\ IdleTopic

\* the platforms the scripts are run on
ScriptPlatforms(sfx) ==
  { pf \in Platforms(sfx) :
      \/ ~pf.pil
      \/ /\ pf.font = "default" /\ pf.text_delta = 0
         /\ pf.text_width = (IF pf.render_fault = "none" THEN 96 ELSE 0)
         /\ pf.render_fault \in {"none", "save"}
         /\ pf.lib \in {"cairosvg", "none"} /\ pf.svg_fault = "none" }

\* what one search result comes to: no URL for it, a download that fails
\* before or while the file is written, a download that works with or
\* without metadata for the file
Outcomes == {"no_url", "fail", "partial", "ok", "ok_no_metadata"}

\* search_unsplash(topic, limit=3)
UnsplashLimit == 3

\* with open(log_file, 'w') and the two header lines
StartDownload ==
  /\ folder = "downloaded_images"
  /\ running = "none"
  /\ runs < MaxRuns
  /\ running' = "download"
  /\ runs' = runs + 1
  /\ idx' = 1
  /\ log' = <<LogLine("header")>>
  /\ downloaded_count' = 0
  /\ failed_count' = 0
  /\ counted' = {}
  /\ paused' = FALSE
  /\ pending' = 0
  /\ step' = NoStep
  /\ UNCHANGED <<fs, images, folder, success_count, skip_count, fail_count, topicVars, last, ncalls, metadataVars, threadVars,
                 tried, optionVars, questionVars>>

\* download_image(url, filepath): the file is written when the download works
\* and left cut short when the connection breaks while it is written
download_image(dir, path, image, outcome) ==
  IF outcome \in {"ok", "ok_no_metadata"} THEN Write(dir, path, image)
  ELSE IF outcome = "partial" THEN Write(dir, path, Junk)
  ELSE dir

\* the top of main's loop when a Wikimedia Commons search (for the topic or
\* for one of the alternative terms) returns n results
SearchWikimedia(n) ==
  /\ running = "download"
  /\ idx <= NQuestions
  /\ pending = 0
  /\ log' = Append(log, LogQuestion(idx))
  /\ pending' = n
  /\ UNCHANGED <<fs, running, runs, idx, downloaded_count, failed_count, paused, counted,
                 images, folder, success_count, skip_count, fail_count, step,
                 topicVars, last, ncalls, metadataVars, threadVars,
                 tried, optionVars, questionVars>>

\* an end of the iteration that leaves a question without an image uncounted
NoImageFoundUncounted(lg) ==
  /\ log' = Append(lg, LogLine("error_no_cc_image"))
  /\ paused' = TRUE
  /\ idx' = idx + 1
  /\ UNCHANGED <<downloaded_count, failed_count, counted>>
\* the end of an iteration that found no image
NoImageFound(lg) ==
  /\ log' = Append(lg, LogLine("error_no_cc_image"))
  /\ failed_count' = failed_count + 1
  /\ paused' = TRUE
  /\ idx' = idx + 1
  /\ UNCHANGED <<downloaded_count, counted>>

\* an end of the iteration that counts an image only when it is cited
ImageFoundCitedOnly(lg, via, title, license_info, cited) ==
  /\ log' = lg
  /\ downloaded_count' = downloaded_count + (IF cited THEN 1 ELSE 0)
  /\ failed_count' = failed_count + (IF cited THEN 0 ELSE 1)
  /\ counted' = counted \cup
       {[q |-> idx, via |-> via, title |-> title, license_info |-> license_info,
         cited |-> cited]}
  /\ paused' = TRUE
  /\ idx' = idx + 1
\* the end of an iteration that saved an image
ImageFound(lg, via, title, license_info, cited) ==
  /\ log' = lg
  /\ downloaded_count' = downloaded_count + 1
  /\ counted' = counted \cup
       {[q |-> idx, via |-> via, title |-> title, license_info |-> license_info,
         cited |-> cited]}
  /\ paused' = TRUE
  /\ idx' = idx + 1
  /\ UNCHANGED failed_count

\* one pass of the for loop over search_results, and the end of the iteration
\* when it was the last pass or the pass that saved an image
TryResult(title, outcome, pf) ==
  /\ running = "download"
  /\ pending > 0
  /\ LET path   == QuestionPath(idx, Ext(title))
         lg     == log \o <<LogDownloading(title), LogLine("url")>>
         got    == download_image(fs, path, Downloaded(title), outcome)
         r      == add_citation_overlay(got, path, get_image_metadata(title), pf)
         isLast == pending = 1
     IN  IF ~IsFileTitle(title) \/ outcome = "no_url"
           THEN /\ fs' = fs
                /\ IF isLast THEN NoImageFound(log)
                   ELSE UNCHANGED <<log, idx, downloaded_count, failed_count, paused, counted>>
                /\ pending' = pending - 1
                /\ step' = step
         ELSE IF outcome \in {"fail", "partial"}
           THEN /\ fs' = got
                /\ IF isLast THEN NoImageFound(Append(lg, LogLine("download_failed")))
                   ELSE /\ log' = Append(lg, LogLine("download_failed"))
                        /\ UNCHANGED <<idx, downloaded_count, failed_count, paused, counted>>
                /\ pending' = pending - 1
                /\ step' = step
         ELSE IF outcome = "ok_no_metadata"
           THEN /\ fs' = got
                /\ ImageFound(Append(lg, LogLine("saved_no_metadata")), "wikimedia", title,
                              <<>>, FALSE)
                /\ pending' = 0
                /\ step' = Item("download_cc_images", path, "no_metadata")
         ELSE /\ fs' = r.dir
              /\ ImageFound(IF r.ret
                              THEN lg \o <<LogLine("saved_with_citation"), LogLine("citation")>>
                              ELSE Append(lg, LogLine("saved_overlay_failed")),
                            "wikimedia", title, LicenseInfo(title), r.ret)
              /\ pending' = 0
              /\ step' = Item("download_cc_images", path, Cite(r))
  /\ UNCHANGED <<running, runs, images, folder, success_count, skip_count, fail_count,
                 topicVars, last, ncalls, metadataVars, threadVars,
                 tried, optionVars, questionVars>>

\* the log lines of n Unsplash attempts
RECURSIVE UnsplashAttempts(_)
UnsplashAttempts(n) ==
  IF n = 0 THEN <<>>
  ELSE UnsplashAttempts(n - 1) \o <<LogLine("downloading_from_unsplash"), LogLine("url")>>

\* the Unsplash fallback of an iteration whose searches all came back empty,
\* and the end of the iteration: the Unsplash photos are tried in turn and
\* the first failed of them fail to download
TryUnsplash(lg, failed, pf) ==
  LET path == QuestionPath(idx, ".jpg")
      got  == Write(fs, path, Raster(400, 300, "RGB", 0))
      r    == add_citation_overlay(got, path, UnsplashMetadata, pf)
  IN  IF failed < UnsplashLimit
        THEN /\ fs' = r.dir
             /\ ImageFound(lg \o UnsplashAttempts(failed + 1)
                             \o <<LogLine(IF r.ret THEN "saved_with_citation_unsplash"
                                          ELSE "saved_unsplash")>>,
                           "unsplash", "-", <<"U","n","s","p","l","a","s","h"," ","L","i","c","e","n","s","e">>, r.ret)
             /\ step' = Item("download_cc_images", path, Cite(r))
        ELSE /\ fs' = fs
             /\ step' = step
             /\ log' = lg \o UnsplashAttempts(failed) \o <<LogLine("error_no_results")>>
             /\ failed_count' = failed_count + 1
             /\ paused' = FALSE
             /\ idx' = idx + 1
             /\ UNCHANGED <<downloaded_count, counted>>

\* one iteration of main's loop when every search came back empty
QuestionUnsplash(failed, pf) ==
  /\ running = "download"
  /\ idx <= NQuestions
  /\ pending = 0
  /\ TryUnsplash(Append(log, LogQuestion(idx)), failed, pf)
  /\ UNCHANGED <<running, runs, images, pending, folder, success_count, skip_count,
                 fail_count, topicVars, last, ncalls, metadataVars, threadVars,
                 tried, optionVars, questionVars>>

\* the loop is over: the with block closes the log and main returns
FinishDownload ==
  /\ running = "download"
  /\ idx > NQuestions
  /\ running' = "none"
  /\ UNCHANGED <<fs, runs, idx, log, downloaded_count, failed_count, paused, counted,
                 images, pending, folder, success_count, skip_count, fail_count, step,
                 topicVars, last, ncalls, metadataVars, threadVars,
                 tried, optionVars, questionVars>>

\* add_citations_to_existing.main up to its loop: the log must exist
StartAddCitations ==
  /\ folder = "downloaded_images"
  /\ running = "none"
  /\ runs < MaxRuns
  /\ log # <<>>
  /\ running' = "add_citations"
  /\ runs' = runs + 1
  /\ images' = extract_filenames_from_log(log, fs)
  /\ success_count' = 0 /\ skip_count' = 0 /\ fail_count' = 0
  /\ step' = NoStep
  /\ UNCHANGED <<fs, idx, log, downloaded_count, failed_count, paused, counted,
                 pending, folder, topicVars, last, ncalls, metadataVars, threadVars,
                 tried, optionVars, questionVars>>

\* one iteration of add_citations_to_existing.main's loop: SVG files are
\* skipped; the others get the overlay when their metadata can be fetched;
\* an image that gets no citation is counted in fail_count
StepAddCitations(metadata_ok, pf) ==
  /\ running = "add_citations"
  /\ images # <<>>
  /\ LET img_info == Head(images)
         r == add_citation_overlay(fs, img_info.local_path,
                                   get_image_metadata(img_info.wikimedia_filename), pf)
     IN  IF img_info.local_path.suffix = ".svg"
           THEN /\ fs' = fs
                /\ skip_count' = skip_count + 1
                /\ step' = step
                /\ UNCHANGED <<success_count, fail_count>>
         ELSE IF ~metadata_ok
           THEN /\ fs' = fs
                /\ fail_count' = fail_count + 1
                /\ step' = Item("add_citations_to_existing", img_info.local_path, "no_metadata")
                /\ UNCHANGED <<success_count, skip_count>>
         ELSE /\ fs' = r.dir
              /\ IF r.ret
                   THEN success_count' = success_count + 1 /\ fail_count' = fail_count
                   ELSE fail_count' = fail_count + 1 /\ success_count' = success_count
              /\ step' = Item("add_citations_to_existing", img_info.local_path, Cite(r))
              /\ UNCHANGED skip_count
  /\ images' = Tail(images)
  /\ UNCHANGED <<running, runs, idx, log, downloaded_count, failed_count, paused, counted,
                 pending, folder, topicVars, last, ncalls, metadataVars, threadVars,
                 tried, optionVars, questionVars>>

FinishAddCitations ==
  /\ running = "add_citations"
  /\ images = <<>>
  /\ running' = "none"
  /\ UNCHANGED <<fs, runs, idx, log, downloaded_count, failed_count, paused, counted,
                 images, pending, folder, success_count, skip_count, fail_count, step,
                 topicVars, last, ncalls, metadataVars, threadVars,
                 tried, optionVars, questionVars>>

\* the SVG files there can be in the directory
SvgPaths == {p \in NeurologyPaths : p.suffix = ".svg"}

\* process_svg_files and convert_svg_with_citations.main up to their loops:
\* svg_files = list(image_dir.glob("*.svg")), in the order the directory
\* gives them; with no SVG file the script returns at once.
\* convert_svg_with_citations imports cairosvg and Pillow when it is loaded
StartSvgScript(script, svg_files) ==
  /\ folder = "neurology_images"
  /\ running = "none"
  /\ runs < MaxRuns
  /\ svg_files \in Orders({p \in SvgPaths : Exists(fs, p)})
  /\ runs' = runs + 1
  /\ running' = IF svg_files = <<>> THEN "none" ELSE script
  /\ images' = svg_files
  /\ success_count' = 0 /\ fail_count' = 0
  /\ step' = NoStep
  /\ UNCHANGED <<fs, idx, log, downloaded_count, failed_count, paused, counted, pending,
                 folder, skip_count, topicVars, last, ncalls, metadataVars, threadVars,
                 tried, optionVars, questionVars>>

\* a loop body that removes the SVG whether or not it was converted
SvgFileDoneUnlinkAlways(script, svg_path, wikimedia_filename, conv, pf) ==
  /\ fs' = Unlink(conv.dir, svg_path)
  /\ IF conv.ret
       THEN success_count' = success_count + 1 /\ UNCHANGED fail_count
       ELSE fail_count' = fail_count + 1 /\ UNCHANGED success_count
  /\ step' = IF conv.ret THEN Item(script, svg_path, "no_metadata") ELSE step
\* what the loop body of both scripts does with one SVG file once the log
\* has been searched: convert, cite the JPG when there is metadata, count the
\* file in success_count whatever came of the citation, remove the SVG; a
\* file that is not converted is counted in fail_count
SvgFileDone(script, svg_path, wikimedia_filename, conv, pf) ==
  LET jpg_path == with_suffix(svg_path, ".jpg")
      r        == add_citation_overlay(conv.dir, jpg_path,
                                       get_image_metadata(wikimedia_filename[1]), pf)
  IN  IF ~conv.ret
        THEN /\ fs' = conv.dir
             /\ fail_count' = fail_count + 1
             /\ step' = step
             /\ UNCHANGED success_count
      ELSE IF wikimedia_filename = <<>>
        THEN /\ fs' = Unlink(conv.dir, svg_path)
             /\ success_count' = success_count + 1
             /\ step' = Item(script, svg_path, "no_metadata")
             /\ UNCHANGED fail_count
      ELSE /\ fs' = Unlink(r.dir, svg_path)
           /\ success_count' = success_count + 1
           /\ step' = Item(script, svg_path, Cite(r))
           /\ UNCHANGED fail_count

\* one iteration of process_svg_files' loop
StepProcessSvg(pf) ==
  /\ running = "process_svg_files"
  /\ images # <<>>
  /\ LET svg_path == Head(images)
     IN  SvgFileDone("process_svg_files", svg_path, ProcessSvgMatch(log, svg_path.stem),
                     convert_svg_to_jpg(fs, svg_path, with_suffix(svg_path, ".jpg"), pf), pf)
  /\ images' = Tail(images)
  /\ UNCHANGED <<running, runs, idx, log, downloaded_count, failed_count, paused, counted,
                 pending, folder, skip_count, topicVars, last, ncalls, metadataVars, threadVars,
                 tried, optionVars, questionVars>>

\* one iteration of convert_svg_with_citations.main's loop, with the
\* script's own convert_svg_to_jpg
StepConvertSvg(pf) ==
  /\ running = "convert_svg_with_citations"
  /\ images # <<>>
  /\ pf.pil /\ pf.lib = "cairosvg"
  /\ LET svg_path == Head(images)
     IN  SvgFileDone("convert_svg_with_citations", svg_path, ConvertSvgMatch(log, svg_path.stem),
                     ConvertCairo(fs, svg_path, with_suffix(svg_path, ".jpg"), pf.svg_fault), pf)
  /\ images' = Tail(images)
  /\ UNCHANGED <<running, runs, idx, log, downloaded_count, failed_count, paused, counted,
                 pending, folder, skip_count, topicVars, last, ncalls, metadataVars, threadVars,
                 tried, optionVars, questionVars>>

\* the loop over svg_files is over
FinishSvgScript ==
  /\ running \in {"process_svg_files", "convert_svg_with_citations"}
  /\ images = <<>>
  /\ running' = "none"
  /\ UNCHANGED <<fs, runs, idx, log, downloaded_count, failed_count, paused, counted,
                 images, pending, folder, success_count, skip_count, fail_count, step,
                 topicVars, last, ncalls, metadataVars, threadVars,
                 tried, optionVars, questionVars>>

NextScripts ==
  \/ StartDownload
  \/ \E n \in 1..MaxResults : SearchWikimedia(n)
  \/ \E title \in Titles, outcome \in Outcomes, pf \in ScriptPlatforms(".svg") :
       TryResult(title, outcome, pf)
  \/ \E failed \in 0..UnsplashLimit, pf \in ScriptPlatforms(".jpg") :
       QuestionUnsplash(failed, pf)
  \/ FinishDownload
  \/ StartAddCitations
  \/ \E metadata_ok \in BOOLEAN, pf \in ScriptPlatforms(".jpg") :
       StepAddCitations(metadata_ok, pf)
  \/ FinishAddCitations
  \/ \E script \in {"process_svg_files", "convert_svg_with_citations"},
        svg_files \in UNION { Orders(files) : files \in SUBSET SvgPaths } :
       StartSvgScript(script, svg_files)
  \/ \E pf \in ScriptPlatforms(".svg") : StepProcessSvg(pf)
  \/ \E pf \in ScriptPlatforms(".svg") : StepConvertSvg(pf)
  \/ FinishSvgScript

SpecScripts == InitScripts /\ [][NextScripts]_vars
(***************************************************************************)
(* One run of download_cc_images.main with the searches of a question made *)
(* one by one.                                                             *)
(***************************************************************************)
\* alt_terms: topic.replace(' ', '_'), topic.lower(), the first word of the
\* answer
alt_terms_lower_first == <<"lowercased", "underscored", "first_word">>
alt_terms == <<"underscored", "lowercased", "first_word">>

InitSearch ==
  /\ folder = "downloaded_images"
  /\ fs = EmptyDir
  /\ log = <<>>
  /\ IdleScripts
  /\ IdleMetadata
  /\ IdleThreads
  /\ IdleQuestions
  /\ IdleOverlay
  /\ IdleTopic

\* the platforms main is run on: with or without Pillow, without faults
SearchPlatforms(sfx) ==
  {pf \in ScriptPlatforms(sfx) : pf.pil => (pf.render_fault = "none" /\ pf.lib = "cairosvg")}

\* main is run once
StartSearch == runs = 0 /\ StartDownload

\* the loop is inside the iteration of a question and no search has returned
\* a result so far
Searching ==
  /\ running = "download"
  /\ idx <= NQuestions
  /\ pending = 0
  /\ log[Len(log)].k = "question"

\* the top of the loop: the question is logged and
\* search_wikimedia_commons(topic, limit=10) returns n results
SearchTopic(n) ==
  /\ running = "download"
  /\ idx <= NQuestions
  /\ pending = 0
  /\ log[Len(log)].k # "question"
  /\ log' = Append(log, LogQuestion(idx))
  /\ tried' = <<"topic">>
  /\ pending' = n
  /\ UNCHANGED <<fs, running, runs, idx, downloaded_count, failed_count, paused, counted,
                 images, folder, success_count, skip_count, fail_count, step,
                 topicVars, last, ncalls, metadataVars, threadVars, optionVars, questionVars>>

\* if not search_results: the next of alt_terms is searched for and returns
\* n results
SearchAlternative(n) ==
  /\ Searching
  /\ Len(tried) <= Len(alt_terms)
  /\ tried' = Append(tried, alt_terms[Len(tried)])
  /\ pending' = n
  /\ UNCHANGED <<fs, running, runs, idx, log, downloaded_count, failed_count, paused, counted,
                 images, folder, success_count, skip_count, fail_count, step,
                 topicVars, last, ncalls, metadataVars, threadVars, optionVars, questionVars>>

\* if not search_results, after the last of alt_terms: search_unsplash and
\* the rest of the iteration
SearchUnsplash(failed, pf) ==
  /\ Searching
  /\ Len(tried) = Len(alt_terms) + 1
  /\ tried' = Append(tried, "unsplash")
  /\ TryUnsplash(log, failed, pf)
  /\ UNCHANGED <<running, runs, images, pending, folder, success_count, skip_count,
                 fail_count, topicVars, last, ncalls, metadataVars, threadVars,
                 optionVars, questionVars>>

NextSearch ==
  \/ StartSearch
  \/ \E n \in 0..MaxResults : SearchTopic(n)
  \/ \E n \in 0..MaxResults : SearchAlternative(n)
  \/ \E failed \in 0..UnsplashLimit, pf \in SearchPlatforms(".jpg") : SearchUnsplash(failed, pf)
  \/ \E title \in {"File:Blood film.jpg", "Category:Anemia"}, outcome \in {"fail", "ok"},
        pf \in SearchPlatforms(".jpg") :
       TryResult(title, outcome, pf)
  \/ FinishDownload

SpecSearch == InitSearch /\ [][NextSearch]_vars

(***************************************************************************)
(* One run of a two-option download script: download_neurology_images,    *)
(* download_renal_images and download_anemia_images, which take the two    *)
(* images of a question from one list of search results, and               *)
(* download_pharmacology_images, which takes one image for each of the two *)
(* queries of a question.                                                  *)
(***************************************************************************)
\* 'queries': every entry of PHARMACOLOGY_QUESTIONS has two
NQueries == 2

\* f"question_{q_num:02d}_option_{option_letter}"
OptionStem(q, option_letter) == QuestionStem(q) \o "_option_" \o option_letter
OptionPaths ==
  [stem : {OptionStem(q, l) : q \in 1..NQuestions, l \in {"a", "b"}}, suffix : Suffixes]

InitOptions ==
  /\ folder \in {"neurology_images", "pharmacology_images"}
  /\ fs = [p \in OptionPaths |-> NoFile]
  /\ log = <<>>
  /\ running = "none" /\ runs = 0 /\ idx = 0
  /\ downloaded_count = 0 /\ failed_count = 0 /\ paused = FALSE
  /\ counted = {} /\ images = <<>> /\ pending = 0
  /\ success_count = 0 /\ skip_count = 0 /\ fail_count = 0
  /\ step = NoStep
  /\ tried = <<>> /\ images_downloaded = 0 /\ query_idx = 0
  /\ IdleMetadata
  /\ IdleThreads
  /\ IdleQuestions
  /\ IdleOverlay
  /\ IdleTopic

\* the search results and what downloading them comes to
OptionTitles == {"File:Blood film.jpg", "Category:Anemia"}
OptionOutcomes == {"fail", "ok"}

\* main up to its loop: with open(log_file, 'w') and the two header lines
StartOptions ==
  /\ running = "none"
  /\ runs = 0
  /\ running' = IF folder = "neurology_images" THEN "download_neurology_images"
                ELSE "download_pharmacology_images"
  /\ runs' = 1
  /\ idx' = 1
  /\ log' = <<LogLine("header")>>
  /\ UNCHANGED <<fs, downloaded_count, failed_count, paused, counted, images, pending, folder,
                 success_count, skip_count, fail_count, step, tried, optionVars,
                 topicVars, last, ncalls, metadataVars, threadVars, questionVars>>

\* the end of an iteration with n images saved for the question
EndQuestion(lg, n) ==
  /\ log' = Append(lg, LogLine(IF n = 0 THEN "error_no_cc_image"
                               ELSE IF n < 2 THEN "note_only_one" ELSE "two_images"))
  /\ failed_count' = failed_count + (IF n = 0 THEN 1 ELSE 0)
  /\ paused' = TRUE
  /\ idx' = idx + 1

\* what a result that is downloaded comes to, whatever the option: the file
\* written at output_path, the citation and the lines logged
Option(option_letter, title, outcome, pf) ==
  LET output_path == [stem |-> OptionStem(idx, option_letter), suffix |-> Ext(title)]
      got     == download_image(fs, output_path, Downloaded(title), outcome)
      r       == add_citation_overlay(got, output_path, get_image_metadata(title), pf)
      skipped == ~IsFileTitle(title) \/ outcome = "no_url"
      saved   == ~skipped /\ outcome \in {"ok", "ok_no_metadata"}
      cite    == IF outcome = "ok_no_metadata" THEN "no_metadata" ELSE Cite(r)
  IN  [skipped |-> skipped, saved |-> saved, output_path |-> output_path,
       dir  |-> IF skipped THEN fs ELSE IF outcome = "ok" THEN r.dir ELSE got,
       lines |-> IF skipped THEN <<>>
                 ELSE <<LogDownloadingOption(title), LogLine("url"),
                        LogLine(IF ~saved THEN "download_failed"
                                ELSE IF cite = "no_metadata" THEN "saved_no_metadata"
                                ELSE IF cite = "cited" THEN "saved_with_citation"
                                ELSE "saved_overlay_failed")>>,
       step |-> IF saved THEN Item(running, output_path, cite) ELSE step]

\* an option letter that does not move on
OptionLetterAlwaysA == "a"
\* option_letter = 'a' if query_idx == 0 else 'b'
OptionLetterByQuery == IF query_idx = 0 THEN "a" ELSE "b"
\* option_letter = 'a' if images_downloaded == 0 else 'b'
OptionLetter == IF images_downloaded = 0 THEN "a" ELSE "b"

\* the record of an image saved and counted: the question, which image of
\* the question it is, the query it came from and where it is
Saved(o, letter) ==
  [q |-> idx, nth |-> images_downloaded + 1, query |-> query_idx, letter |-> letter,
   path |-> o.output_path]

\* download_neurology_images.main: the top of the loop, the searches for the
\* topic and the alternative terms, which return n results between them
SearchOptions(n) ==
  /\ running = "download_neurology_images"
  /\ idx <= NQuestions
  /\ pending = 0
  /\ images_downloaded' = 0
  /\ pending' = n
  /\ IF n = 0 THEN EndQuestion(Append(log, LogQuestion(idx)), 0)
     ELSE log' = Append(log, LogQuestion(idx)) /\ UNCHANGED <<idx, failed_count, paused>>
  /\ UNCHANGED <<fs, running, runs, downloaded_count, counted, images, folder,
                 success_count, skip_count, fail_count, step, tried, query_idx,
                 topicVars, last, ncalls, metadataVars, threadVars, questionVars>>

\* download_neurology_images.main: one pass of the loop over search_results,
\* and the end of the iteration when the results are used up or two images
\* are saved
TryOption(title, outcome, pf) ==
  /\ running = "download_neurology_images"
  /\ pending > 0
  /\ LET o == Option(OptionLetter, title, outcome, pf)
         n == images_downloaded + (IF o.saved THEN 1 ELSE 0)
     IN  /\ fs' = o.dir
         /\ step' = o.step
         /\ images_downloaded' = n
         /\ downloaded_count' = downloaded_count + (IF o.saved THEN 1 ELSE 0)
         /\ counted' = IF o.saved THEN counted \cup {Saved(o, OptionLetter)} ELSE counted
         /\ IF pending = 1 \/ n >= 2
              THEN pending' = 0 /\ EndQuestion(log \o o.lines, n)
              ELSE /\ pending' = pending - 1
                   /\ log' = log \o o.lines
                   /\ UNCHANGED <<idx, failed_count, paused>>
  /\ UNCHANGED <<running, runs, images, folder, success_count, skip_count, fail_count,
                 tried, query_idx, topicVars, last, ncalls, metadataVars, threadVars,
                 questionVars>>

\* download_pharmacology_images.main: the loop goes on to the next query, or
\* ends the iteration after the last with n images saved
NextQuery(lg, n) ==
  IF query_idx + 1 < NQueries
    THEN /\ query_idx' = query_idx + 1
         /\ log' = lg
         /\ UNCHANGED <<idx, failed_count, paused>>
    ELSE /\ query_idx' = 0
         /\ EndQuestion(lg, n)

\* download_pharmacology_images.main: the searches for a query and its
\* alternative terms, which return n results between them; for the first
\* query also the top of the loop
SearchQuery(n) ==
  /\ running = "download_pharmacology_images"
  /\ idx <= NQuestions
  /\ pending = 0
  /\ LET lg   == IF query_idx = 0 THEN Append(log, LogQuestion(idx)) ELSE log
         imgs == IF query_idx = 0 THEN 0 ELSE images_downloaded
     IN  /\ images_downloaded' = imgs
         /\ pending' = n
         /\ IF n = 0 THEN NextQuery(Append(lg, LogLine("no_image_for_query")), imgs)
            ELSE log' = lg /\ UNCHANGED <<idx, failed_count, paused, query_idx>>
  /\ UNCHANGED <<fs, running, runs, downloaded_count, counted, images, folder,
                 success_count, skip_count, fail_count, step, tried,
                 topicVars, last, ncalls, metadataVars, threadVars, questionVars>>

\* download_pharmacology_images.main: one pass of the loop over the results
\* of a query; the loop breaks at the first image saved
TryQueryResult(title, outcome, pf) ==
  /\ running = "download_pharmacology_images"
  /\ pending > 0
  /\ LET o == Option(OptionLetterByQuery, title, outcome, pf)
         n == images_downloaded + (IF o.saved THEN 1 ELSE 0)
     IN  /\ fs' = o.dir
         /\ step' = o.step
         /\ images_downloaded' = n
         /\ downloaded_count' = downloaded_count + (IF o.saved THEN 1 ELSE 0)
         /\ counted' = IF o.saved THEN counted \cup {Saved(o, OptionLetterByQuery)} ELSE counted
         /\ IF o.saved
              THEN pending' = 0 /\ NextQuery(log \o o.lines, n)
            ELSE IF pending = 1
              THEN pending' = 0
                   /\ NextQuery(log \o o.lines \o <<LogLine("no_image_for_query")>>, n)
            ELSE /\ pending' = pending - 1
                 /\ log' = log \o o.lines
                 /\ UNCHANGED <<idx, failed_count, paused, query_idx>>
  /\ UNCHANGED <<running, runs, images, folder, success_count, skip_count, fail_count,
                 tried, topicVars, last, ncalls, metadataVars, threadVars, questionVars>>

\* the loop is over: the with block closes the log and main returns
FinishOptions ==
  /\ running \in {"download_neurology_images", "download_pharmacology_images"}
  /\ idx > NQuestions
  /\ running' = "none"
  /\ UNCHANGED <<fs, runs, idx, log, downloaded_count, failed_count, paused, counted,
                 images, pending, folder, success_count, skip_count, fail_count, step,
                 tried, optionVars, topicVars, last, ncalls, metadataVars, threadVars,
                 questionVars>>

NextOptions ==
  \/ StartOptions
  \/ \E n \in 0..MaxResults : SearchOptions(n)
  \/ \E title \in OptionTitles, outcome \in OptionOutcomes, pf \in SearchPlatforms(".svg") :
       TryOption(title, outcome, pf)
  \/ \E n \in 0..MaxResults : SearchQuery(n)
  \/ \E title \in OptionTitles, outcome \in OptionOutcomes, pf \in SearchPlatforms(".svg") :
       TryQueryResult(title, outcome, pf)
  \/ FinishOptions

SpecOptions == InitOptions /\ [][NextOptions]_vars


(***************************************************************************)
(* Two invocations of the core functions running concurrently on one image *)
(* directory.  A step is one access to the file system: what a thread has   *)
(* read stays in its local img until it writes.                            *)
(***************************************************************************)
\* the platform both threads run on: Pillow and cairosvg work, nothing fails
\* by itself, the built-in font is used
ThreadPlatform ==
  [pil |-> TRUE, lib |-> "cairosvg", svg_fault |-> "none", render_fault |-> "none",
   font |-> "default", text_width |-> 96, text_delta |-> 0]
ThreadMetadata == [title |-> <<"B","l","o","o","d"," ","f","i","l","m">>, author |-> <<"J","a","n","e"," ","D","o","e">>, license |-> <<"C","C"," ","B","Y"," ","2",".","0">>]

\* the directories the threads start on: the first question's image as a JPG,
\* a PNG or an SVG (alone or beside a raster image) and the second
\* question's JPG
ThreadFirst ==
  { Write(EmptyDir, p, f) :
      p \in {QuestionPath(1, ".jpg")}, f \in {Raster(400, 300, "RGB", 0)} }
  \cup { Write(EmptyDir, p, f) :
           p \in {QuestionPath(1, ".png")}, f \in {Raster(400, 300, "RGBA", 0)} }
  \cup {EmptyDir}
ThreadDirs ==
  { Write(Write(d, QuestionPath(2, ".jpg"), Raster(400, 300, "RGB", 0)),
          QuestionPath(1, ".svg"), s) :
      d \in ThreadFirst, s \in {NoFile, Svg(400, 300)} }
  \ { Write(EmptyDir, QuestionPath(2, ".jpg"), Raster(400, 300, "RGB", 0)) }

\* an invocation before its first step: its arguments, the file it works on
\* (image_path is reassigned after a conversion), its position, the image
\* it has read and what it returned
OverlayCall(p) ==
  [fn |-> "add_citation_overlay", image_path |-> p, path |-> p, answer |-> <<>>, question |-> <<>>,
   pc |-> IF p.suffix = ".svg" THEN "svg2png" ELSE "open", img |-> NoFile, ret |-> <<>>]
TopicCall(a, q) ==
  [fn |-> "extract_topic", image_path |-> QuestionPath(1, ".jpg"),
   path |-> QuestionPath(1, ".jpg"), answer |-> a, question |-> q,
   pc |-> "lookup", img |-> NoFile, ret |-> <<>>]
ThreadAnswers == {<<"A","p","l","a","s","t","i","c"," ","a","n","e","m","i","a">>, <<"t","h","e"," ","t","h","e","r","a","p","y">>}
Calls(dir) ==
  { OverlayCall(p) : p \in {q \in Paths : Exists(dir, q)} }
    \cup { TopicCall(a, <<>>) : a \in ThreadAnswers }

InitThreads ==
  /\ fs \in ThreadDirs
  /\ fs0 = fs
  /\ thr \in [1..2 -> Calls(fs)]
  /\ ncalls = 0 /\ last = [fn |-> "none"]
  /\ IdleScripts
  /\ IdleMetadata
  /\ IdleTopic
  /\ IdleQuestions

\* the invocation returns
Return(t, value) == thr' = [thr EXCEPT ![t].pc = "done", ![t].ret = <<value>>]
Goto(t, pc) == thr' = [thr EXCEPT ![t].pc = pc]

\* extract_topic works on its arguments and on the table it builds itself
ThreadExtractTopic(t) ==
  /\ thr[t].pc = "lookup"
  /\ Return(t, extract_topic(thr[t].answer, thr[t].question))
  /\ UNCHANGED <<fs, fs0, ncalls, last, topicVars, scriptVars, metadataVars, questionVars>>

\* cairosvg.svg2png(url=svg_path, write_to=png_path): an exception (the SVG
\* is gone) makes convert_svg_to_jpg, and then the overlay, return False
ThreadSvg2Png(t) ==
  /\ thr[t].pc = "svg2png"
  /\ LET svg_path == thr[t].path
         png_path == with_suffix(svg_path, ".png")
     IN  IF fs[svg_path].fmt # "svg"
           THEN /\ Return(t, FALSE)
                /\ fs' = fs
           ELSE /\ Goto(t, "png2jpg")
                /\ fs' = Write(fs, png_path, Raster(fs[svg_path].width, fs[svg_path].height, "RGBA", 0))
  /\ UNCHANGED <<fs0, ncalls, last, topicVars, scriptVars, metadataVars, questionVars>>

\* Image.open(png_path), convert('RGB'), save(jpg_path), png_path.unlink()
ThreadPng2Jpg(t) ==
  /\ thr[t].pc = "png2jpg"
  /\ LET svg_path == thr[t].path
         png_path == with_suffix(svg_path, ".png")
         jpg_path == with_suffix(svg_path, ".jpg")
         png      == fs[png_path]
     IN  IF png.fmt # "raster"
           THEN /\ Return(t, FALSE)
                /\ fs' = fs
           ELSE /\ Goto(t, "unlink")
                /\ fs' = Unlink(Write(fs, jpg_path, Raster(png.width, png.height, "RGB", png.bands)),
                                png_path)
  /\ UNCHANGED <<fs0, ncalls, last, topicVars, scriptVars, metadataVars, questionVars>>

\* image_path.unlink() and image_path = jpg_path: unlinking a file that is
\* gone raises, and the except clause returns False
ThreadUnlink(t) ==
  /\ thr[t].pc = "unlink"
  /\ IF ~Exists(fs, thr[t].path)
       THEN /\ Return(t, FALSE)
            /\ fs' = fs
       ELSE /\ thr' = [thr EXCEPT ![t].pc = "open", ![t].path = with_suffix(thr[t].path, ".jpg")]
            /\ fs' = Unlink(fs, thr[t].path)
  /\ UNCHANGED <<fs0, ncalls, last, topicVars, scriptVars, metadataVars, questionVars>>

\* img = Image.open(image_path) and the pixels it loads
ThreadOpen(t) ==
  /\ thr[t].pc = "open"
  /\ IF fs[thr[t].path].fmt # "raster"
       THEN Return(t, FALSE)
       ELSE thr' = [thr EXCEPT ![t].pc = "save", ![t].img = fs[thr[t].path]]
  /\ UNCHANGED <<fs, fs0, ncalls, last, topicVars, scriptVars, metadataVars, questionVars>>

\* overlay.save(image_path, quality=95) opens the file for writing, which
\* empties it
ThreadSaveBegin(t) ==
  /\ thr[t].pc = "save"
  /\ Goto(t, "saving")
  /\ fs' = Write(fs, thr[t].path, Junk)
  /\ UNCHANGED <<fs0, ncalls, last, topicVars, scriptVars, metadataVars, questionVars>>

\* the encoder has written the overlay built from the local image
ThreadSaveEnd(t) ==
  /\ thr[t].pc = "saving"
  /\ LET img == thr[t].img
         th  == MeasuredHeight(ThreadPlatform, font_size(img.width, img.height))
     IN  fs' = Write(fs, thr[t].path, Overlay(img, th))
  /\ Return(t, TRUE)
  /\ UNCHANGED <<fs0, ncalls, last, topicVars, scriptVars, metadataVars, questionVars>>

NextThreads ==
  \E t \in 1..2 :
    \/ ThreadExtractTopic(t)
    \/ ThreadSvg2Png(t)
    \/ ThreadPng2Jpg(t)
    \/ ThreadUnlink(t)
    \/ ThreadOpen(t)
    \/ ThreadSaveBegin(t)
    \/ ThreadSaveEnd(t)

SpecThreads == InitThreads /\ [][NextThreads]_vars

\* one invocation run from its call to its return on a directory
Invoke(dir, c) ==
  IF c.fn = "extract_topic" THEN [dir |-> dir, ret |-> <<extract_topic(c.answer, c.question)>>]
  ELSE LET r == add_citation_overlay(dir, c.image_path, ThreadMetadata, ThreadPlatform)
       IN  [dir |-> r.dir, ret |-> <<r.ret>>]

\* the directory and the two results when a runs before b
Sequential(dir, a, b) ==
  LET first  == Invoke(dir, a)
      second == Invoke(first.dir, b)
  IN  [dir |-> second.dir, ret_a |-> first.ret, ret_b |-> second.ret]

\* the files an invocation reads or writes, as written with the temporary
\* .png of the conversion left out
TouchedNoTemp(c) ==
  IF c.fn = "extract_topic" THEN {}
  ELSE IF c.image_path.suffix = ".svg" THEN {c.image_path, with_suffix(c.image_path, ".jpg")}
  ELSE {c.image_path}
\* the files an invocation reads or writes: none for extract_topic, the image
\* for a raster image, and the SVG, the temporary .png and the .jpg for an SVG
Touched(c) ==
  IF c.fn = "extract_topic" THEN {}
  ELSE IF c.image_path.suffix = ".svg"
    THEN {c.image_path, with_suffix(c.image_path, ".png"), with_suffix(c.image_path, ".jpg")}
  ELSE {c.image_path}

\* what the two concurrent invocations have come to, and what they come to
\* when one runs after the other
AllDone == thr # <<>> /\ \A t \in 1..2 : thr[t].pc = "done"
Outcome == [dir |-> fs, ret_1 |-> thr[1].ret, ret_2 |-> thr[2].ret]
SequentialOutcomes ==
  LET ab == Sequential(fs0, thr[1], thr[2])
      ba == Sequential(fs0, thr[2], thr[1])
  IN  { [dir |-> ab.dir, ret_1 |-> ab.ret_a, ret_2 |-> ab.ret_b],
        [dir |-> ba.dir, ret_1 |-> ba.ret_b, ret_2 |-> ba.ret_a] }
(***************************************************************************)
(* extract_questions on a quiz text.  The text is a sequence of pieces,    *)
(* each a "Question N:", "Answer:" or "Explanation:" marker with the text  *)
(* that follows it up to the next marker.  A span <<i, j>> stands for the  *)
(* text of piece i followed by the pieces i+1..j, markers included.        *)
(***************************************************************************)
MaxPieces == 5

Pieces ==
  { [k |-> "question", q |-> 1], [k |-> "question", q |-> 2],
    [k |-> "answer", q |-> 0], [k |-> "explanation", q |-> 0] }

RECURSIVE Contents(_)
Contents(n) ==
  IF n = 0 THEN {<<>>}
  ELSE LET shorter == Contents(n - 1)
       IN  shorter \cup {Append(c, p) : c \in {s \in shorter : Len(s) = n - 1}, p \in Pieces}

\* re.finditer(r'Question (\d+):\s*(.*?)(?=Answer:|$)', content, re.DOTALL):
\* from a question marker lazily to the next "Answer:" or to the end of the
\* text, then on from there
RECURSIVE QuestionMatches(_, _)
QuestionMatches(c, i) ==
  LET a    == FindEntry(c, i, "question")
      b    == IF a = 0 THEN 0 ELSE FindEntry(c, a + 1, "answer")
      last_piece == IF b = 0 THEN Len(c) ELSE b - 1
  IN  IF a = 0 THEN <<>>
      ELSE <<[number |-> c[a].q, question |-> <<a, last_piece>>]>>
             \o QuestionMatches(c, last_piece + 1)

\* re.search(rf'Question {q_num}:.*?Answer:\s*(.*?)(?=Explanation:|$)',
\* content, re.DOTALL): from the first marker of that number to the first
\* "Answer:" after it, and the text from there to the next "Explanation:" or
\* to the end
AnswerMatch(c, q_num) ==
  LET at == {j \in 1..Len(c) : c[j].k = "question" /\ c[j].q = q_num}
      a  == IF at = {} THEN 0 ELSE Min(at)
      b  == IF a = 0 THEN 0 ELSE FindEntry(c, a + 1, "answer")
      e  == IF b = 0 THEN 0 ELSE FindEntry(c, b + 1, "explanation")
  IN  IF b = 0 THEN <<>>
      ELSE <<[answer |-> <<b, IF e = 0 THEN Len(c) ELSE e - 1>>]>>

\* extract_questions(content): a record for every match that has an answer
RECURSIVE WithAnswer(_, _)
WithAnswer(c, ms) ==
  IF ms = <<>> THEN <<>>
  ELSE LET m == Head(ms)
           answer_match == AnswerMatch(c, m.number)
       IN  (IF answer_match = <<>> THEN <<>>
            ELSE <<[number |-> m.number, question |-> m.question,
                    answer |-> answer_match[1].answer]>>)
           \o WithAnswer(c, Tail(ms))
extract_questions(c) == WithAnswer(c, QuestionMatches(c, 1))

InitQuestions ==
  /\ content \in Contents(MaxPieces)
  /\ questions = <<>>
  /\ qpc = "call"
  /\ fs = <<>>
  /\ IdleTopic
  /\ IdleOverlay
  /\ IdleScripts
  /\ IdleMetadata
  /\ IdleThreads

ExtractQuestions ==
  /\ qpc = "call"
  /\ questions' = extract_questions(content)
  /\ qpc' = "done"
  /\ UNCHANGED <<content, topicVars, overlayVars, scriptVars, metadataVars, threadVars>>

NextQuestions == ExtractQuestions

SpecQuestions == InitQuestions /\ [][NextQuestions]_vars


(***************************************************************************)
(* Claims about extract_topic (SpecTopic).                                 *)
(***************************************************************************)
\* the table entries whose phrase occurs in the lowercased text s
Hits(s) == {i \in 1..Len(answer_to_topic) : Contains(Lower(s), answer_to_topic[i].key)}

\* C1, as stated: whenever the answer contains a table phrase, in any letter
\* case and inside any text, the result is the topic of that very phrase.
C1_EveryPhraseDecides ==
  tpc = "done" =>
    \A i \in Hits(answer) : topic = answer_to_topic[i].topic

\* C1, amended: whenever the answer contains a table phrase, in any letter
\* case and inside any text, and contains the phrase of no entry declared
\* before it, the result is the topic of that phrase.
C1_UnshadowedPhraseDecides ==
  tpc = "done" =>
    LET hits == Hits(answer)
    IN  \A i \in hits :
          (\A j \in 1..(i - 1) : j \notin hits) => topic = answer_to_topic[i].topic

\* C1 witness: a phrase in capitals inside other text, with a phrase declared
\* after it in the same answer, has decided the result.
C1_Witness ==
  /\ tpc = "done"
  /\ answer # Lower(answer)
  /\ LET hits == Hits(answer)
     IN  \E i \in hits :
           /\ Len(answer) > Len(answer_to_topic[i].key)
           /\ \A j \in 1..(i - 1) : j \notin hits
           /\ \E k \in hits : k > i
           /\ topic = answer_to_topic[i].topic

\* C2: whenever the lowercased answer contains the phrases of two or more
\* table entries, the result is the topic of the one declared earliest.
C2_EarliestOfSeveralWins ==
  tpc = "done" =>
    LET hits == Hits(answer)
    IN  Cardinality(hits) >= 2 => topic = answer_to_topic[Min(hits)].topic

\* C2 witness: two entries with different topics matched, the later one the
\* longer phrase, and the earlier one's topic was returned.
C2_Witness ==
  /\ tpc = "done"
  /\ LET hits == Hits(answer)
     IN  \E i, j \in hits :
           /\ i = Min(hits)
           /\ i < j
           /\ Len(answer_to_topic[j].key) > Len(answer_to_topic[i].key)
           /\ answer_to_topic[i].topic # answer_to_topic[j].topic
           /\ topic = answer_to_topic[i].topic

\* text with no character other than whitespace
Blank(s) == \A i \in 1..Len(s) : IsSpace(s[i])
\* the answer has a word that survives the fallback's filtering
HasFallbackWord(s) == MeaningfulWords(RemovePrefixes(Lower(s), Prefixes)) # <<>>

\* C3, as stated: extract_topic returns for every (answer, question), and the
\* string it returns is never empty.
C3_NeverEmpty ==
  tpc = "done" => topic # <<>>

\* C3, amended: extract_topic returns for every (answer, question); the
\* string it returns is empty exactly when the answer has no table phrase
\* and no surviving fallback word and the question is empty or blank.
C3_EmptyOnlyWhenNothingUsable ==
  tpc = "done" =>
    (topic = <<>> <=>
       (Hits(answer) = {} /\ ~HasFallbackWord(answer) /\ Blank(question)))

\* C3 witness: extract_topic has returned the empty string for an answer that
\* is not empty (it holds no table phrase and no word the fallback keeps) and
\* a question with no word in it
C3_Witness ==
  /\ tpc = "done"
  /\ answer # <<>>
  /\ Blank(question)
  /\ topic = <<>>

\* the procedure C4 describes: drop a leading article word, split, drop the
\* words of length <= 2 and the stopwords and, or, for, with, join three
ClaimedStopWords == { <<"a","n","d">>, <<"o","r">>, <<"f","o","r">>, <<"w","i","t","h">> }
Articles == { <<"t","h","e">>, <<"a">>, <<"a","n">> }
ClaimedFallback(s) ==
  LET ws   == Split(Lower(s))
      rest == IF ws # <<>> /\ Head(ws) \in Articles THEN Tail(ws) ELSE ws
      kept == SelectSeq(rest, LAMBDA w : Len(w) > 2 /\ w \notin ClaimedStopWords)
  IN  Join(Take(kept, 3), <<" ">>)

\* answers on which the described procedure does not differ from the code by
\* design: no word "answer:", and no word "the" after the first word
PlainWords(s) ==
  LET ws == Split(Lower(s))
  IN  \A i \in 1..Len(ws) : ws[i] # <<"a","n","s","w","e","r",":">> /\ (i > 1 => ws[i] # <<"t","h","e">>)

\* C4: when no table entry matches, the result is what the described
\* procedure yields: the lowercased answer without a leading article,
\* without its short words and stopwords, cut to three words, and no other
\* word removed or altered.
C4_FallbackAsDescribed ==
  (tpc = "done" /\ Hits(answer) = {} /\ PlainWords(answer)
     /\ ClaimedFallback(answer) # <<>>) =>
    topic = ClaimedFallback(answer)

C21_QuestionIgnoredForUsableAnswer ==
  (tpc = "done" /\ (Hits(answer) # {} \/ ClaimedFallback(answer) # <<>>)) =>
    \A other \in EdgeQuestions : extract_topic(answer, other) = topic

\* C28: every table entry is reachable, that is, no entry's phrase contains
\* the phrase of an entry declared before it: the answer that is an entry's
\* phrase, in any letter case, has that entry as its first match and gets
\* that entry's topic.
C28_EveryEntryDecidesItsOwnPhrase ==
  tpc = "done" =>
    \A j \in 1..Len(answer_to_topic) :
      Lower(answer) = answer_to_topic[j].key =>
        /\ FirstMatch(Lower(answer)) = j
        /\ topic = answer_to_topic[j].topic

(***************************************************************************)
(* Claims about add_citation_overlay (SpecOverlay).                        *)
(***************************************************************************)
\* a call has been made
HasCalled == last.fn # "none"
\* the path a call given path p works on: the JPG beside an SVG
Target(p) == IF p.suffix = ".svg" THEN with_suffix(p, ".jpg") ELSE p

\* C6: after every successful call the saved image is as wide as the input
\* image and as tall as the input image plus the measured height of the
\* citation text plus twice the padding of 20.
C6_SavedSize ==
  (HasCalled /\ last.ret) =>
    LET input == last.before[last.path]
        out   == fs[Target(last.path)]
    IN  /\ out.fmt = "raster"
        /\ out.width = input.width
        /\ out.height = input.height + last.text_height + 2 * 20

\* C6 witness: a successful call on an image with an alpha channel whose
\* citation measured 11 high has saved it 51 higher and as wide.
C6_Witness ==
  /\ HasCalled
  /\ last.ret
  /\ last.before[last.path].mode = "RGBA"
  /\ last.text_height = 11
  /\ fs[last.path].height = last.before[last.path].height + 51
  /\ fs[last.path].width = last.before[last.path].width

RenderFailure == HasCalled /\ ~last.ret /\ last.why \in {"measure", "draw"}

\* C8, as stated: when a call fails because measuring or drawing the text
\* raised, the directory holds the same files with the same contents as
\* before the call.
C8_RenderFailureUntouched ==
  RenderFailure => fs = last.before

\* C8, amended: when a call fails because measuring or drawing the text
\* raised, no file is partially written; for a raster input the directory
\* is as it was before the call, and for an .svg input the SVG has been
\* replaced by its complete, uncited JPG.
C8_RenderFailureLeavesWholeFiles ==
  RenderFailure =>
    /\ \A p \in Paths : fs[p].fmt = "junk" => last.before[p].fmt = "junk"
    /\ last.path.suffix # ".svg" => fs = last.before
    /\ last.path.suffix = ".svg" =>
         /\ ~Exists(fs, last.path)
         /\ fs[with_suffix(last.path, ".jpg")] =
              Raster(last.before[last.path].width, last.before[last.path].height, "RGB", 0)

\* C8 witness: measuring failed on a raster image that already carries a band.
C8_Witness ==
  /\ RenderFailure
  /\ last.why = "measure"
  /\ last.path.suffix = ".png"
  /\ fs[last.path].bands = 1

\* the fields of the metadata of the last call, with the defaults of a
\* missing one
ShownTitle == Get(last.metadata, "title", Get(last.metadata, "filename", <<"I","m","a","g","e">>))
ShownAuthor == Get(last.metadata, "author", <<"U","n","k","n","o","w","n">>)
ShownLicense == Get(last.metadata, "license", <<"C","C">>)
\* the metadata of the last call has no author, or an empty one
NoAuthor == "author" \notin DOMAIN last.metadata \/ last.metadata.author = <<>>

\* C13, as stated: whenever the metadata has an empty or a missing author,
\* the citation text drawn on the image names the author as Unknown.
C13_NoAuthorShownAsUnknown ==
  (HasCalled /\ last.ret /\ NoAuthor) => Contains(last.text, <<"\""," ","b","y"," ","U","n","k","n","o","w","n"," ">>)

\* C13, amended: the citation text names the author as Unknown when the
\* metadata has no author field; an author field that is there is drawn as
\* it is, and an empty one leaves nothing between "by" and the licence.
C13_UnknownOnlyForMissingAuthor ==
  (HasCalled /\ last.ret /\ NoAuthor) =>
    IF "author" \in DOMAIN last.metadata
      THEN Contains(last.text, <<"\""," ","b","y"," "," ">> \o ShownLicense)
             /\ ~Contains(last.text, <<"U","n","k","n","o","w","n">>)
      ELSE Contains(last.text, <<"\""," ","b","y"," ","U","n","k","n","o","w","n"," ">> \o ShownLicense)

\* C13 witness: an empty title, an empty author and the licence CC0 have been
\* drawn as "" by, two spaces, CC0.
C13_Witness ==
  /\ HasCalled
  /\ last.ret
  /\ last.metadata = [title |-> <<>>, author |-> <<>>, license |-> <<"C","C","0">>]
  /\ last.text = <<"\"","\""," ","b","y"," "," ","C","C","0">>

\* C14: the citation text is the title between double quotes, a space, the
\* word by, a space, the author, a space and the licence label, and nothing
\* before, between or after them.
C14_CitationFormat ==
  (HasCalled /\ last.ret) =>
    LET t == Len(ShownTitle)
        a == Len(ShownAuthor)
        l == Len(ShownLicense)
    IN  /\ Len(last.text) = t + a + l + 7
        /\ last.text[1] = "\""
        /\ SubSeq(last.text, 2, t + 1) = ShownTitle
        /\ SubSeq(last.text, t + 2, t + 6) = <<"\"", " ", "b", "y", " ">>
        /\ SubSeq(last.text, t + 7, t + a + 6) = ShownAuthor
        /\ last.text[t + a + 7] = " "
        /\ SubSeq(last.text, t + a + 8, t + a + l + 7) = ShownLicense

\* C14 witness: the title Blood film, the author Jane Doe and the licence
\* CC BY 2.0 have been drawn as one line of text.
C14_Witness ==
  /\ HasCalled
  /\ last.ret
  /\ last.fn = "download_cc_images"
  /\ last.text = <<"\"","B","l","o","o","d"," ","f","i","l","m","\""," ","b","y"," ","J","a","n","e"," ","D","o","e"," ","C","C"," ","B","Y"," ","2",".","0">>

\* the image the last call was given, and the image it left
Given == last.before[last.path]
Left == fs[Target(last.path)]

\* C15: every successful application makes the image strictly taller and
\* leaves its width: the image left carries one band more than the image
\* given, whether or not that one carried a band already.
C15_TallerEachTime ==
  (HasCalled /\ last.ret) =>
    /\ Left.height > Given.height
    /\ Left.width = Given.width
    /\ Left.bands = Given.bands + 1

\* C15 witness: a second successful application to the same file has left it
\* with two bands, taller than after the first.
C15_Witness ==
  /\ HasCalled
  /\ last.ret
  /\ Given.bands = 1
  /\ Left.bands = 2
  /\ Left.height > Given.height
  /\ Given.height > 300

\* C18: an image in mode RGBA, LA or P is pasted on white through its alpha
\* channel before the band is added, and an RGB image is left as it is.
C18_AlphaFlattenedThroughMask ==
  (HasCalled /\ last.ret) =>
    /\ Given.mode \in {"RGBA", "LA", "P"} => last.flatten = "alpha_mask"
    /\ Given.mode = "RGB" => last.flatten = "none"

\* C19, as stated: the citation is rendered at the size max(16, min(width,
\* height) div 40) whichever font is selected.
C19_EveryFontAtFontSize ==
  (HasCalled /\ last.ret) =>
    /\ last.font_size = Max({16, Min({Given.width, Given.height}) \div 40})
    /\ last.sized

\* C19, amended: font_size is max(16, min(width, height) div 40) and is the
\* size Helvetica and Arial are loaded at; the built-in default font is
\* loaded without a size, and its text measures the same on every image.
C19_FontSizeForTrueTypeOnly ==
  (HasCalled /\ last.ret) =>
    /\ last.font_size = Max({16, Min({Given.width, Given.height}) \div 40})
    /\ last.font \in {"Helvetica", "Arial"} => last.sized
    /\ last.font = "default" => (~last.sized /\ last.text_height = 11)

\* C19 witness: an image of 1280 by 960, whose font_size is 24, has been cited
\* in the built-in default font, whose text measured 11 high.
C19_Witness ==
  /\ HasCalled
  /\ last.ret
  /\ Given.width = 1280
  /\ last.font_size = 24
  /\ last.font = "default"
  /\ last.text_height = 11

\* C20, as stated: the band is font_size + 40 high, and an RGB image of 400
\* by 300 is saved as 400 by 356.
C20_BandIsFontSizePlus40 ==
  (HasCalled /\ last.ret) =>
    /\ Left.height - Given.height = last.font_size + 40
    /\ Given = Raster(400, 300, "RGB", 0) => (Left.width = 400 /\ Left.height = 356)

\* C20, amended: the band is as high as the citation text measures plus 40,
\* which is font_size + 40 only when the text measures exactly font_size; in
\* the built-in default font an RGB image of 400 by 300 is saved as 400 by
\* 351.
C20_BandFollowsMeasuredText ==
  (HasCalled /\ last.ret) =>
    /\ (Left.height - Given.height = last.font_size + 40) <=> (last.text_height = last.font_size)
    /\ (Given = Raster(400, 300, "RGB", 0) /\ last.font = "default") =>
         (Left.width = 400 /\ Left.height = 351)

\* C20 witness: an RGB image of 400 by 300 cited in the built-in default font
\* has been saved as 400 by 351.
C20_Witness ==
  /\ HasCalled
  /\ last.ret
  /\ Given = Raster(400, 300, "RGB", 0)
  /\ last.font = "default"
  /\ last.font_size = 16
  /\ Left = Raster(400, 351, "RGB", 1)

\* C30: after every successful call the citation text lies inside the band:
\* its x coordinate is (newWidth - textWidth) div 2 and is not negative, the
\* text ends at or before the right edge, and its y coordinate is the input
\* height plus the padding.
C30_TextInsideBand ==
  (HasCalled /\ last.ret) =>
    LET newWidth == fs[Target(last.path)].width
    IN  /\ last.text_x = (newWidth - last.text_width) \div 2
        /\ last.text_x >= 0
        /\ last.text_x + last.text_width <= newWidth
        /\ last.text_y = last.img_height + padding

(***************************************************************************)
(* Claims about the scripts.                                               *)
(***************************************************************************)
\* C9: across any sequence of runs of the scripts every image file has the
\* citation overlay applied to it at most once, so no image in the directory
\* carries two citation bands.
C9_AtMostOneBand == \A p \in DOMAIN fs : fs[p].bands <= 1

\* C10: every image a download script has saved and counted as downloaded
\* has a Creative Commons licence; none is saved whose licence is another
\* one or could not be determined.
C10_CountedAreCreativeCommons ==
  \A c \in counted : IsCreativeCommons(c.license_info)

\* a script has just gone through the citation step of an item and the step
\* failed: add_citation_overlay returned False or there was no metadata
CitationFailed ==
  /\ step' # step
  /\ step'.cite \in {"overlay_failed", "save_failed", "no_metadata"}
\* the item is counted as a success by the script that runs
CountedAsSuccess ==
  IF running = "download"
    THEN downloaded_count' = downloaded_count + 1 /\ failed_count' = failed_count
    ELSE success_count' = success_count + 1 /\ fail_count' = fail_count
\* the item is counted as a failure by add_citations_to_existing
CountedAsFailure == fail_count' = fail_count + 1 /\ success_count' = success_count

QuestionDone == running = "download" /\ idx' = idx + 1
\* exactly one of the two counters has gone up, by one
OneCounterOnce ==
  \/ downloaded_count' = downloaded_count + 1 /\ failed_count' = failed_count
  \/ failed_count' = failed_count + 1 /\ downloaded_count' = downloaded_count

\* C24: in download_cc_images.main, after the loop has processed k questions
\* downloaded_count + failed_count = k, and each question increments exactly
\* one of the two counters exactly once, on every path (Wikimedia success,
\* Unsplash success, no search results, all downloads failed).
C24_EveryQuestionCountedOnce ==
  /\ [](running = "download" => downloaded_count + failed_count = idx - 1)
  /\ [][(QuestionDone => OneCounterOnce)
        /\ ((running = "download" /\ running' = "download" /\ idx' = idx)
              => (downloaded_count' = downloaded_count /\ failed_count' = failed_count))]_vars

\* C24 witness: the loop has been through two questions on two paths, one
\* that saved a Wikimedia image and one whose downloads all failed.
C24_Witness ==
  /\ running = "download"
  /\ idx = 3
  /\ downloaded_count = 1 /\ failed_count = 1
  /\ \E c \in counted : c.via = "wikimedia"
  /\ log[Len(log)].k = "error_no_cc_image"

\* C26: download_cc_images.main is polite to the API: after every question,
\* on every outcome, it executes the 0.5 s pause before the first search
\* request of the next question.
C26_PauseBeforeNextQuestion ==
  (running = "download" /\ pending = 0 /\ 1 < idx /\ idx <= NQuestions) => paused

\* the question the file of a returned entry was saved for, and the record of
\* what was saved for it in this run
SourceOf(e) == {c \in counted : c.q = e.q_num /\ c.via = "wikimedia"}

\* C23: for the log of a finished run of download_cc_images.main each entry
\* extract_filenames_from_log returns names the Wikimedia file that was
\* saved for its question, and no question with a saved Wikimedia image is
\* left out.
C23_LogEntriesNameTheSavedFile ==
  (running = "none" /\ folder = "downloaded_images" /\ log # <<>>) =>
    LET es == extract_filenames_from_log(log, fs)
    IN  /\ \A i \in 1..Len(es) :
             \E c \in SourceOf(es[i]) : c.title = es[i].wikimedia_filename
        /\ \A c \in counted :
             c.via = "wikimedia" => \E i \in 1..Len(es) : es[i].q_num = c.q

\* the JPG that stands for an SVG
JpgOf(p) == with_suffix(p, ".jpg")
\* the step removes the SVG p
SvgRemoved(p) == Exists(fs, p) /\ ~Exists(fs', p)
\* the step is an iteration of process_svg_files or convert_svg_with_citations
\* whose conversion returned a false result
SvgScriptConversionFailed ==
  /\ running \in {"process_svg_files", "convert_svg_with_citations"}
  /\ fail_count' = fail_count + 1
\* the step is an iteration of download_cc_images.main that saved an SVG and
\* whose add_citation_overlay returned False before anything was saved
SvgOverlayFailed ==
  /\ running = "download" /\ idx' = idx + 1
  /\ step'.script = "download_cc_images"
  /\ step'.item = QuestionPath(idx, ".svg")
  /\ step'.cite = "overlay_failed"

ClosedSet ==
  {<<"C","C","0">>, <<"C","C"," ","B","Y">>, <<"C","C"," ","B","Y"," ","2",".","0">>, <<"C","C"," ","B","Y"," ","3",".","0">>, <<"C","C"," ","B","Y"," ","4",".","0">>, <<"C","C"," ","B","Y","-","S","A">>,
   <<"C","C"," ","B","Y","-","S","A"," ","2",".","0">>, <<"C","C"," ","B","Y","-","S","A"," ","3",".","0">>, <<"C","C"," ","B","Y","-","S","A"," ","4",".","0">>, <<"C","C">>}

C12_ShareAlikeGetsShareAlikeCode ==
  (mpc = "wikimedia" /\ Contains(Lower(page.license_info), <<"c","c","-","b","y","-","s","a">>))
    => handed.license = Versioned(<<"C","C"," ","B","Y","-","S","A">>, page.license_info)

(***************************************************************************)
(* Claims about concurrent invocations (SpecThreads).                      *)
(***************************************************************************)
\* C17 as stated: whatever two invocations of extract_topic or of
\* add_citation_overlay run concurrently, on the same image too, the
\* directory and the two results they end with are those of one of the two
\* sequential executions.
C17_AlwaysSerializable == AllDone => Outcome \in SequentialOutcomes

\* C17: two concurrent invocations end as one of the two sequential
\* executions does when no file is read or written by both of them, which
\* covers every invocation of extract_topic.
C17_SerializableOnDistinctFiles ==
  (AllDone /\ Touched(thr[1]) \cap Touched(thr[2]) = {}) => Outcome \in SequentialOutcomes

\* C17 witness: two overlays have run concurrently on two different images
\* and both have saved a cited image.
C17_Witness ==
  /\ AllDone
  /\ thr[1].fn = "add_citation_overlay" /\ thr[2].fn = "add_citation_overlay"
  /\ Touched(thr[1]) \cap Touched(thr[2]) = {}
  /\ thr[1].ret = <<TRUE>> /\ thr[2].ret = <<TRUE>>
  /\ fs[thr[1].path].bands = 1 /\ fs[thr[2].path].bands = 1
(***************************************************************************)
(* Claims about the search strategies of download_cc_images.main.          *)
(***************************************************************************)
\* the order of the strategies as described
ClaimedOrder == <<"topic", "underscored", "lowercased", "first_word", "unsplash">>
\* the strategies tried for the question are the first of the described
\* order, in that order
TriedInOrder == Len(tried) <= Len(ClaimedOrder) /\ tried = SubSeq(ClaimedOrder, 1, Len(tried))
\* the step tries one more strategy for the question the loop is at
TriesAnother == running = "download" /\ Len(tried') = Len(tried) + 1
\* no search made for the question so far has returned a result and no image
\* has been saved for it
NothingSoFar == pending = 0 /\ \A c \in counted : c.q # idx
\* the step ends the question as failed
CountsFailed == running = "download" /\ failed_count' = failed_count + 1

Headers == {i \in 1..Len(content) : content[i].k = "question"}
\* the "Answer:" of the question at header h: the first one after the header
\* and before the next header, 0 when the question has none
OwnAnswer(h) ==
  LET a == FindEntry(content, h + 1, "answer")
      n == FindEntry(content, h + 1, "question")
  IN  IF a # 0 /\ (n = 0 \/ a < n) THEN a ELSE 0
\* the text between an "Answer:" and the next "Explanation:"
UpToExplanation(a) ==
  LET e == FindEntry(content, a + 1, "explanation")
  IN  <<a, IF e = 0 THEN Len(content) ELSE e - 1>>

\* C29: for any content extract_questions returns the records in the order
\* of the "Question N:" headers, with the number of their header; each
\* record's answer is the text between the "Answer:" of that same question
\* and the next "Explanation:", no record carries the answer of another
\* question, and no question that has an answer is dropped.
C29_EachRecordHasItsOwnAnswer ==
  qpc = "done" =>
    /\ \A i \in 1..Len(questions) :
         LET h == questions[i].question[1]
         IN  /\ h \in Headers
             /\ questions[i].number = content[h].q
             /\ OwnAnswer(h) # 0
             /\ questions[i].answer = UpToExplanation(OwnAnswer(h))
             /\ \A j \in 1..(i - 1) : questions[j].question[1] < h
    /\ \A h \in Headers :
         OwnAnswer(h) # 0 => \E i \in 1..Len(questions) : questions[i].question[1] = h
(***************************************************************************)
(* Claims about the two-option download scripts.                           *)
(***************************************************************************)
\* the images saved for question q
SavedFor(q) == {c \in counted : c.q = q}

\* at most two images are saved per question, no two images of a question
\* are saved under the same name (with or without its suffix), and
\* downloaded_count, which counts the images saved, is at most twice the
\* number of questions
TwoDistinctPerQuestion ==
  /\ images_downloaded <= 2
  /\ \A q \in 1..NQuestions :
       /\ Cardinality(SavedFor(q)) <= 2
       /\ \A c, d \in SavedFor(q) : c # d => c.path.stem # d.path.stem
  /\ downloaded_count = Cardinality(counted)
  /\ downloaded_count <= 2 * NQuestions

\* C22 as stated: in the two-option download scripts at most two images are
\* saved per question, the first saved image of a question is named
\* option_a and the second option_b, so no saved image of a question is
\* overwritten by another of the same question, and the downloaded count
\* never exceeds twice the number of questions.
C22_FirstSavedIsOptionA ==
  /\ TwoDistinctPerQuestion
  /\ \A c \in counted : c.letter = (IF c.nth = 1 THEN "a" ELSE "b")

\* C22: at most two images are saved per question under two different
\* names, and the downloaded count never exceeds twice the number of
\* questions; in the scripts that take both images from one result list the
\* first saved image is option_a and the second option_b, while
\* download_pharmacology_images names the image of the first query option_a
\* and the image of the second query option_b, whichever was saved first.
C22_OptionNamedByScript ==
  /\ TwoDistinctPerQuestion
  /\ \A c \in counted :
       /\ c.path.stem = OptionStem(c.q, c.letter)
       /\ IF folder = "pharmacology_images"
            THEN c.letter = (IF c.query = 0 THEN "a" ELSE "b")
            ELSE c.letter = (IF c.nth = 1 THEN "a" ELSE "b")

\* C22 witness: download_pharmacology_images has saved one image for
\* question 1, from the second query, as option_b, and two images for
\* question 2.
C22_Witness ==
  /\ running = "download_pharmacology_images"
  /\ idx = 3
  /\ downloaded_count = 3
  /\ \E c \in SavedFor(1) : c.nth = 1 /\ c.letter = "b"
  /\ Cardinality(SavedFor(2)) = 2


====
